---- MODULE Spec2Model ----
(***************************************************************************)
(* A model of the response decoder of sf-api: GameState::update walks the *)
(* fields of one server response and mutates the in-memory snapshot.       *)
(*                                                                         *)
(* One update call is modelled as: Begin (the timestamp step and the       *)
(* resets done before the loop), one action per field handler of the       *)
(* dispatching match, and Reconcile (the commit of the staged entries and  *)
(* the pruning of the optional sub-states).  A call ends with `result`     *)
(* set to "Ok", "ParsingError", "ConnectionError" or "panic" (an index     *)
(* out of range or an arithmetic overflow that aborts the thread).         *)
(*                                                                         *)
(* Times.  TLC's integers are 32 bits wide and the plausibility window of  *)
(* ServerTime::convert_to_local ends at 3_000_000_000, so every epoch      *)
(* value of the model is counted in seconds from EpochBase (1_000_000_000  *)
(* seconds after 1970) instead of from 1970: Rel(raw) = raw - EpochBase.   *)
(* A difference of two epoch values is the same number in both scales.     *)
(***************************************************************************)
EXTENDS Integers, Sequences, FiniteSets, TLC

VARIABLES
    gs,            \* the snapshot (GameState)
    zone,          \* the time zone chrono's `Local` stands for on this machine
    pc,            \* "idle": no call running, "loop": inside the field loop
    resp,          \* the fields of the response being applied, in iteration order
    received,      \* response.received_at() of that response (Rel seconds)
    pos,           \* index in resp of the next field to process
    server_time,   \* the local `server_time` of update (mod.rs:171)
    other_player,  \* the local staging entry `other_player` (mod.rs:175)
    other_guild,   \* the local staging entry `other_guild` (mod.rs:176)
    result,        \* how the last call ended ("none" before the first call)
    entry,         \* the snapshot as it was when the running/last call began
    reconciled,    \* whether the reconciliation pass of the last call has run
    calls,         \* number of update calls begun so far
    conv           \* the last call of ServerTime::convert_to_local made on
                   \* its own: the offset, the raw value and the result

vars == <<gs, zone, pc, resp, received, pos, server_time, other_player,
          other_guild, result, entry, reconciled, calls, conv>>

----------------------------------------------------------------------------
(* Bounds of the model *)

\* longest response, in fields
MaxFields == 2
\* longest response where a field fails after others were handled
MaxErrFields == 3
\* number of update calls in one behaviour
MaxCalls == 2
\* the longest account save is SaveMinLen + SaveSlack integers long
SaveSlack == 3

----------------------------------------------------------------------------
(* Option<T>: None is the empty sequence, Some(x) the sequence <<x>> *)

None == <<>>
Some(x) == <<x>>
IsSome(o) == o # <<>>
Unwrap(o) == o[1]

StartsWith(s, p) == Len(s) >= Len(p) /\ SubSeq(s, 1, Len(p)) = p
Contains(s, p) ==
    \E i \in 1..(Len(s) - Len(p) + 1) : SubSeq(s, i, i + Len(p) - 1) = p

----------------------------------------------------------------------------
(* Time: ServerTime and chrono's Local zone *)

\* 1_000_000_000: the first raw epoch value convert_to_local accepts, and the
\* origin of the model's time scale
EpochBase == 1000000000
\* 3_000_000_000 - EpochBase: the last raw epoch value convert_to_local accepts
WindowEnd == 2000000000

Rel(raw) == raw - EpochBase

\* A time zone: UTC offset `before` for instants earlier than `at`, `after`
\* from `at` on (a fixed zone has before = after).
UtcOffsetAt(z, e) == IF e < z.at THEN z.before ELSE z.after

\* NaiveDateTime::and_local_timezone(Local): the instants whose wall-clock
\* reading in zone z is the naive value n (none in a gap, two in a fold)
LocalCandidates(z, n) ==
    { e \in {n - z.before, n - z.after} : e + UtcOffsetAt(z, e) = n }

\* LocalResult::latest
Latest(S) == IF S = {} THEN None ELSE Some(CHOOSE e \in S : \A f \in S : f <= e)

\* a conversion that subtracts no offset
convert_offset_stale(diff) == 0
\* the offset convert_to_local subtracts: self.0
convert_offset(diff) == diff

\* ServerTime::convert_to_local for ServerTime(diff); `timestamp` and the
\* resulting instant are in Rel seconds.  DateTime::from_timestamp only fails
\* outside chrono's range (about 8 * 10^12 s), beyond the model's integers.
convert_to_local(diff, timestamp) ==
    IF timestamp = Rel(0) \/ timestamp = Rel(-1) \/ timestamp = Rel(11)
    THEN None
    ELSE IF ~(Rel(EpochBase) <= timestamp /\ timestamp <= WindowEnd)
    THEN None
    ELSE Latest(LocalCandidates(zone, timestamp - convert_offset(diff)))

----------------------------------------------------------------------------
(* Response values.  A ResponseVal is the raw text of one field; the model
   keeps what its conversions make of it:
     "int"   a decimal integer (n),
     "big"   a decimal integer beyond the range of chrono's dates,
     "str"   any other text (s),
     "list"  a '/'-separated list of integers (d),
     "table" a text of ';'-separated records (rows).
   A list is a length and the values at the positions that are not 0. *)

EmptyData == [len |-> 0, at |-> <<>>]
Dense(seq) == [len |-> Len(seq), at |-> [i \in 0..(Len(seq) - 1) |-> seq[i + 1]]]
Sparse(n, f) == [len |-> n, at |-> f]

\* data[i], for i < data.len
At(data, i) == IF i \in DOMAIN data.at THEN data.at[i] ELSE 0
InBounds(data, i) == 0 <= i /\ i < data.len

IntV(n) == [t |-> "int", n |-> n, s |-> "", d |-> EmptyData, rows |-> <<>>]
BigV == [t |-> "big", n |-> 0, s |-> "", d |-> EmptyData, rows |-> <<>>]
StrV(s) == [t |-> "str", n |-> 0, s |-> s, d |-> EmptyData, rows |-> <<>>]
ListV(d) == [t |-> "list", n |-> 0, s |-> "", d |-> d, rows |-> <<>>]
\* a text of ';'-separated records of ','-separated fields, kept as the
\* sequence of its records, each the sequence of its fields
TableV(rows) == [t |-> "table", n |-> 0, s |-> "", d |-> EmptyData, rows |-> rows]

Field(k, v) == [key |-> k, val |-> v]

\* Result<T, SFError>
Ok(x) == [ok |-> TRUE, v |-> <<x>>]
Err(e) == [ok |-> FALSE, v |-> <<e>>]

\* ResponseVal::into::<integer type>: Err unless the text is an integer
into(val) == IF val.t = "int" THEN Ok(val.n) ELSE Err("ParsingError")
\* ResponseVal::into_list: Err unless every element is an integer
into_list(val) ==
    CASE val.t = "list" -> Ok(val.d)
      [] val.t = "int" -> Ok(Dense(<<val.n>>))
      [] val.t = "str" /\ val.s = "" -> Ok(EmptyData)
      [] OTHER -> Err("ParsingError")
\* ResponseVal::as_str on a text field
as_str(val) == val.s

----------------------------------------------------------------------------
(* The snapshot *)

\* Option<T>::get_or_insert_with(Default::default)
get_or_insert_with(o, default) == IF IsSome(o) THEN Unwrap(o) ELSE default

DefaultGuild == [name |-> "", rank |-> 0]
DefaultPets == [rank |-> 0, max_pet_level |-> 0, next_free_exploration |-> None]
DefaultFortress == [upgrades |-> 0, wall_combat_lvl |-> 0]
\* no code under src/ writes Underworld's honor
\* the number of variants of UnderworldBuildingType (underworld.rs:191-202)
UnderworldBuildings == 10
\* UnderworldCost::default()
DefaultUnderworldCost == [time |-> 0, silver |-> 0, souls |-> 0]
DefaultUnderworld ==
    [honor |-> 0, souls_current |-> 0, building_level |-> 0, souls_limit |-> 0,
     total_level |-> 0,
     upgrade_cost |-> [b \in 0..(UnderworldBuildings - 1) |-> DefaultUnderworldCost]]
DefaultPortal == [current |-> 0, enemy_level |-> 0, player_hp_bonus |-> 0]
DefaultBlacksmith ==
    [dismantle_left |-> 0, last_dismantled |-> None, metal |-> 0, arcane |-> 0]
DefaultHellevator == [start |-> None, end |-> None, collect_time_end |-> None]

\* SHOP_N (mod.rs:86)
SHOP_N == 6
\* the number of slots of the inventory bag
BAG_N == 5
\* Shop::default(): six placeholder items; an item is kept as its type code
DefaultShop == [i \in 1..SHOP_N |-> 0]
DefaultBag == [i \in 1..BAG_N |-> None]
DefaultSingleFight == [winner_id |-> 0, fighters |-> "", rounds |-> ""]
DefaultFight == [fight_version |-> 0, fights |-> <<>>, groups |-> "", result |-> None]
DefaultOtherGuild == [name |-> "", rank |-> 0]

\* GameState::default()
DefaultGameState ==
    [ server_time_diff |-> 0,
      last_request_timestamp |-> Rel(0),
      last_fight |-> None,
      name |-> "",
      level |-> 0,
      fights_for_xp |-> 0,
      bag |-> DefaultBag,
      shops |-> [weapon |-> DefaultShop, magic |-> DefaultShop],
      bard_instrument |-> None,
      guild |-> None,
      fortress |-> None,
      underworld |-> None,
      pets |-> None,
      portal |-> None,
      blacksmith |-> None,
      hellevator |-> DefaultHellevator,
      events_ends |-> None,
      dice_reward |-> None,
      wheel_result |-> None,
      daily_tasks |-> <<>>,
      event_tasks |-> <<>>,
      player_hall_of_fame |-> <<>>,
      other_guilds |-> {},
      lookup |-> {} ]

\* GameState::server_time (mod.rs:1466)
ServerTimeOf(g) == g.server_time_diff

----------------------------------------------------------------------------
(* The dispatch of update's match over the field name *)

\* the names that have an arm of their own and are modelled below
Modelled ==
    { "timestamp", "ownplayername", "cryptoid not found", "owngroupname",
      "owngrouprank", "tavernspecialend", "smith", "petsrank",
      "fightversion", "othergroupname", "ownplayersave", "owntower",
      "dicereward", "gttime", "resources", "dailytasklist",
      "otherplayerunitlevel", "Ranklistplayer", "fortresswalllevel",
      "singleportalenemylevel", "wheelresult", "othergrouprank",
      "otherplayername", "otherplayergroupname", "otherplayerfortressrank",
      "otherplayer", "underworldprice", "eventtasklist",
      "maxpetlevel", "fightresult", "fightgroups" }

\* the names whose arm does nothing
Skipped ==
    { "Success", "sucess", "login count", "sessionid", "cryptokey",
      "cryptoid", "preregister", "languagecodelist", "tracking", "skipvideo",
      "webshopid", "cidstring", "mountexpired", "gtchest", "gtrank",
      "gtbonus", "gtbracketlist", "gtrankingmax", "owngroupattack",
      "owngroupdefense", "owntowerlevel", "serverversion", "soldieradvice",
      "chattime", "dailyreward", "calenderreward", "mailinvoice",
      "magicregistration", "tavernspecial", "goldperhournextlevel",
      "underworldmaxsouls", "expeditionrewardresources", "expeditionreward",
      "dungeonfaces", "shadowfaces", "iadungeontime", "workreward",
      "fightadditionalplayers", "reward" }

\* the other names that have an arm of their own
OtherArms ==
    { "owndescription", "wagesperhour", "toilettfull", "skipallow",
      "tavernspecialsub", "fortresschest", 
      "owngroupsave", "owngroupmember", "owngrouppotion", "unitprice",
      "dicestatus", "chathistory", "chatwhisper",
      "upgradeprice", "unitlevel", "fortressprice", "witch",
      "underworldupgradeprice", "unlockfeature", "dungeonprogresslight",
      "dungeonprogressshadow", "portalprogress", "stoneperhournextlevel",
      "woodperhournextlevel", "shadowlevel", "dungeonlevel", 
      "gtsave", "maxrank", "achievement", "groupskillprice",
      "owngroupdescription", "idle",
      "otherdescription", 
      "fortresspricereroll", "dragongoldbonus",
      "oktoberfest", "usersettings", "calenderinfo",
      "othergroupattack", "othergroupdefense", "inboxcapacity",
      "ranklistgroup", "maxrankgroup", "maxrankPets",
      "RanklistPets", "ranklistfortress", "Ranklistfortress",
      "ranklistunderworld", "gamblegoldvalue", "gamblecoinvalue",
      "maxrankFortress", "owngroupknights", "friendlist",
      "legendaries", "fortressGroupPrice", "dailytaskrewardpreview",
      "expeditionevent", "expeditions", "expeditionmonster",
      "expeditionhalftime", "expeditionstate", "expeditioncrossroad",
      "eventtaskrewardpreview", 
      "eventtaskinfo", "scrapbook", "messagelist", "messagetext",
      "combatloglist", "maxupgradelevel", 
      "ownpetsstats", "ownpets", "petsdefensetype", 
      "otherplayerfriendstatus", "otherplayerpetbonus",
      "maxrankUnderworld", 
      "othergroupfightcost",
      "othergroupmember", "othergroupdescription", "othergroup", "dummies" }

\* the arm of the match that a field name selects: the name itself for an
\* arm modelled here, "skipped" for an arm that does nothing, "ignored" for
\* the final arm that takes every name no other arm matches
Handler(key) ==
    CASE key \in Modelled -> key
      [] key \in Skipped -> "skipped"
      [] key \in OtherArms -> "other"
      [] StartsWith(key, "winnerid") -> "winnerid"
      [] StartsWith(key, "fightheader") -> "fightheader"
      [] StartsWith(key, "fight") /\ Len(key) <= 7 -> "fight"
      [] Contains(key, "dungeonenemies") -> "skipped"
      [] StartsWith(key, "attbonus") -> "skipped"
      [] OTHER -> "ignored"

----------------------------------------------------------------------------
(* Narrowing *)

\* soft_into: the value if it fits the target type 0..max, else the default
soft_into(v, max, default) == IF 0 <= v /\ v <= max THEN v ELSE default

U8Max == 255
U16Max == 65535

----------------------------------------------------------------------------
(* GameState::update, step by step *)

HasKey(r, k) == \E i \in 1..Len(r) : r[i].key = k
\* new_vals.get(k), for a response that has the key
ValueOf(r, k) == r[CHOOSE i \in 1..Len(r) : r[i].key = k].val

\* the offset with its sign the other way round: local minus server
time_diff_swapped(ts, rcv) == rcv - ts
\* the offset the timestamp step stores (mod.rs:166-168), for a server epoch
\* ts and a response received at rcv
time_diff(ts, rcv) == ts - rcv

\* a timestamp step that passes over a timestamp it cannot read
timestamp_step_lenient(g, r, rcv) ==
    IF ~HasKey(r, "timestamp") \/ ~into(ValueOf(r, "timestamp")).ok THEN Ok(g)
    ELSE LET ts == Rel(Unwrap(into(ValueOf(r, "timestamp")).v)) IN
         Ok([g EXCEPT !.server_time_diff = time_diff(ts, rcv),
                      !.last_request_timestamp = ts])
\* mod.rs:162-170: the snapshot after the timestamp step, or the error
timestamp_step(g, r, rcv) ==
    IF ~HasKey(r, "timestamp") THEN Ok(g)
    ELSE LET val == ValueOf(r, "timestamp") IN
         IF val.t = "big" THEN Err("ParsingError")
         ELSE IF ~into(val).ok THEN Err("ParsingError")
         ELSE LET ts == Rel(Unwrap(into(val).v)) IN
              Ok([g EXCEPT !.server_time_diff = time_diff(ts, rcv),
                           !.last_request_timestamp = ts])

\* a ServerTime taken before the timestamp step
loop_server_time_stale(before, after) == ServerTimeOf(before)
\* mod.rs:171: the ServerTime the field loop converts with, given the
\* snapshot before and after the timestamp step
loop_server_time(before, after) == ServerTimeOf(after)

\* no reset at all
clear_at_begin_kept(g) == g
\* a reset that also empties the hall of fame
clear_at_begin_all(g) == [g EXCEPT !.last_fight = None, !.player_hall_of_fame = <<>>]
\* mod.rs:173: what update resets before the loop
clear_at_begin(g) == [g EXCEPT !.last_fight = None]

Cur == resp[pos]
AtField(h) == pc = "loop" /\ pos <= Len(resp) /\ Handler(Cur.key) = h

\* a loop that passes over the field after the one it handled
Continue_skipping(g, op, og) ==
    /\ gs' = g
    /\ other_player' = op
    /\ other_guild' = og
    /\ pos' = pos + 2
    /\ UNCHANGED <<zone, pc, resp, received, server_time, result, entry,
                   reconciled, calls, conv>>
\* the field was handled: on to the next one
Continue(g, op, og) ==
    /\ gs' = g
    /\ other_player' = op
    /\ other_guild' = og
    /\ pos' = pos + 1
    /\ UNCHANGED <<zone, pc, resp, received, server_time, result, entry,
                   reconciled, calls, conv>>

\* an error return that puts the snapshot back as it was at entry
Return_rolled_back(g, r) ==
    /\ gs' = entry
    /\ pc' = "done"
    /\ result' = r
    /\ UNCHANGED <<zone, resp, received, pos, server_time, other_player,
                   other_guild, entry, reconciled, calls, conv>>
\* the call ends at this field with r (an error of `?` or `return Err`, or a
\* panic), leaving the snapshot as g
Return(g, r) ==
    /\ gs' = g
    /\ pc' = "done"
    /\ result' = r
    /\ UNCHANGED <<zone, resp, received, pos, server_time, other_player,
                   other_guild, entry, reconciled, calls, conv>>

\* mod.rs:156-176: the entry of update, up to the field loop
Start(r, rcv) ==
    /\ resp' = r
    /\ received' = rcv
    /\ entry' = gs
    /\ reconciled' = FALSE
    /\ calls' = calls + 1
    /\ other_player' = None
    /\ other_guild' = None
    /\ UNCHANGED <<zone, conv>>
    /\ LET stepped == timestamp_step(gs, r, rcv) IN
       IF stepped.ok
       THEN /\ gs' = clear_at_begin(Unwrap(stepped.v))
            /\ server_time' = loop_server_time(gs, Unwrap(stepped.v))
            /\ pc' = "loop"
            /\ pos' = 1
            /\ result' = "none"
       ELSE /\ gs' = gs
            /\ server_time' = 0
            /\ pc' = "done"
            /\ pos' = 0
            /\ result' = Unwrap(stepped.v)

\* a call of update on a response
Begin(r, rcv) ==
    /\ pc = "idle"
    /\ calls < MaxCalls
    /\ Start(r, rcv)

\* update has returned Ok and is called once more on the same response
Again ==
    /\ pc = "done"
    /\ result = "Ok"
    /\ calls < MaxCalls
    /\ Start(resp, received)

\* mod.rs:181-183
H_timestamp ==
    /\ AtField("timestamp")
    /\ Continue(gs, other_player, other_guild)

\* the arms that do nothing (mod.rs:184-198 and others)
H_skipped ==
    /\ AtField("skipped")
    /\ Continue(gs, other_player, other_guild)

\* a final arm that rejects the unknown name
ignored_arm_fails(g) == [g |-> g, r |-> "ParsingError"]
\* mod.rs:1214-1216: the final arm
ignored_arm(g) == [g |-> g, r |-> "Ok"]

H_ignored ==
    /\ AtField("ignored")
    /\ LET out == ignored_arm(gs) IN
       IF out.r = "Ok" THEN Continue(out.g, other_player, other_guild)
       ELSE Return(out.g, out.r)

\* mod.rs:199-201
H_ownplayername ==
    /\ AtField("ownplayername")
    /\ Continue([gs EXCEPT !.name = as_str(Cur.val)], other_player, other_guild)

\* a marker arm that does nothing
cryptoid_not_found_skipped(g) == "Ok"
\* mod.rs:218
cryptoid_not_found(g) == "ConnectionError"

H_cryptoid_not_found ==
    /\ AtField("cryptoid not found")
    /\ IF cryptoid_not_found(gs) = "Ok"
       THEN Continue(gs, other_player, other_guild)
       ELSE Return(gs, cryptoid_not_found(gs))

\* mod.rs:222-226
H_owngroupname ==
    /\ AtField("owngroupname")
    /\ LET guild == get_or_insert_with(gs.guild, DefaultGuild) IN
       Continue([gs EXCEPT !.guild = Some([guild EXCEPT !.name = as_str(Cur.val)])],
                other_player, other_guild)

\* an arm that writes the rank into a new guild
H_owngrouprank_fresh ==
    /\ AtField("owngrouprank")
    /\ LET rank == into(Cur.val) IN
       IF ~rank.ok THEN Return(gs, Unwrap(rank.v))
       ELSE Continue([gs EXCEPT !.guild = Some([DefaultGuild EXCEPT !.rank = Unwrap(rank.v)])],
                     other_player, other_guild)
\* mod.rs:266-269 (the value is converted before the guild is materialized)
H_owngrouprank ==
    /\ AtField("owngrouprank")
    /\ LET rank == into(Cur.val) IN
       IF ~rank.ok THEN Return(gs, Unwrap(rank.v))
       ELSE LET guild == get_or_insert_with(gs.guild, DefaultGuild) IN
            Continue([gs EXCEPT !.guild = Some([guild EXCEPT !.rank = Unwrap(rank.v)])],
                     other_player, other_guild)

\* mod.rs:374-377
H_tavernspecialend ==
    /\ AtField("tavernspecialend")
    /\ LET end == into(Cur.val) IN
       IF ~end.ok THEN Return(gs, Unwrap(end.v))
       ELSE Continue([gs EXCEPT !.events_ends =
                          convert_to_local(server_time, Rel(Unwrap(end.v)))],
                     other_player, other_guild)

\* mod.rs:771-780: data[0] and data[1] are indexed directly
smith(g, val, st) ==
    LET data == into_list(val) IN
    IF ~data.ok THEN [g |-> g, r |-> Unwrap(data.v)]
    ELSE LET d == Unwrap(data.v)
             bs == get_or_insert_with(g.blacksmith, DefaultBlacksmith)
             g1 == [g EXCEPT !.blacksmith = Some(bs)]
         IN  IF ~InBounds(d, 0) THEN [g |-> g1, r |-> "panic"]
             ELSE LET bs2 == [bs EXCEPT !.dismantle_left = soft_into(At(d, 0), U8Max, 0)]
                      g2 == [g EXCEPT !.blacksmith = Some(bs2)]
                  IN  IF ~InBounds(d, 1) THEN [g |-> g2, r |-> "panic"]
                      ELSE [g |-> [g EXCEPT !.blacksmith = Some(
                                     [bs2 EXCEPT !.last_dismantled =
                                         convert_to_local(st, Rel(At(d, 1)))])],
                            r |-> "Ok"]

H_smith ==
    /\ AtField("smith")
    /\ LET out == smith(gs, Cur.val, server_time) IN
       IF out.r = "Ok" THEN Continue(out.g, other_player, other_guild)
       ELSE Return(out.g, out.r)

\* mod.rs:1102-1105
H_petsrank ==
    /\ AtField("petsrank")
    /\ LET rank == into(Cur.val) IN
       IF ~rank.ok THEN Return(gs, Unwrap(rank.v))
       ELSE LET pets == get_or_insert_with(gs.pets, DefaultPets) IN
            Continue([gs EXCEPT !.pets = Some([pets EXCEPT !.rank = Unwrap(rank.v)])],
                     other_player, other_guild)

\* mod.rs:1150-1154
H_fightversion ==
    /\ AtField("fightversion")
    /\ LET version == into(Cur.val) IN
       IF ~version.ok THEN Return(gs, Unwrap(version.v))
       ELSE LET fight == get_or_insert_with(gs.last_fight, DefaultFight) IN
            Continue([gs EXCEPT !.last_fight =
                          Some([fight EXCEPT !.fight_version = Unwrap(version.v)])],
                     other_player, other_guild)

\* mod.rs:1131-1137.  Fight::update_result is not in src/: the result is kept
\* as the list it is decoded from, and an empty list is an error.  The
\* fight is materialized before the result is decoded.
H_fightresult ==
    /\ AtField("fightresult")
    /\ LET data == into_list(Cur.val) IN
       IF ~data.ok THEN Return(gs, Unwrap(data.v))
       ELSE LET fight == get_or_insert_with(gs.last_fight, DefaultFight) IN
            IF Unwrap(data.v).len = 0
            THEN Return([gs EXCEPT !.last_fight = Some(fight)], "ParsingError")
            ELSE Continue([gs EXCEPT !.last_fight =
                               Some([fight EXCEPT !.result = Some(Unwrap(data.v))])],
                          other_player, other_guild)

\* mod.rs:1141-1145.  Fight::update_groups is not in src/: the text is kept.
H_fightgroups ==
    /\ AtField("fightgroups")
    /\ LET fight == get_or_insert_with(gs.last_fight, DefaultFight) IN
       Continue([gs EXCEPT !.last_fight = Some([fight EXCEPT !.groups = as_str(Cur.val)])],
                other_player, other_guild)

\* the decimal digits
Digits == ("0" :> 0) @@ ("1" :> 1) @@ ("2" :> 2) @@ ("3" :> 3) @@ ("4" :> 4)
          @@ ("5" :> 5) @@ ("6" :> 6) @@ ("7" :> 7) @@ ("8" :> 8) @@ ("9" :> 9)
Char(s, i) == SubSeq(s, i, i)

\* str::parse::<usize> on a text that starts with a digit: its value when
\* it is made of digits alone
RECURSIVE parse_usize(_, _)
parse_usize(s, acc) ==
    IF s = "" THEN Some(acc)
    ELSE IF Char(s, 1) \notin DOMAIN Digits THEN None
    ELSE parse_usize(SubSeq(s, 2, Len(s)), 10 * acc + Digits[Char(s, 1)])

\* mod.rs:1474-1479: the number the name carries from its first digit to
\* its end, 1 when it carries none
fight_id(header_name) ==
    LET digits == {i \in 1..Len(header_name) : Char(header_name, i) \in DOMAIN Digits} IN
    IF digits = {} THEN 1
    ELSE LET a == CHOOSE i \in digits : \A j \in digits : i <= j
             n == parse_usize(SubSeq(header_name, a, Len(header_name)), 0)
         IN  IF IsSome(n) THEN Unwrap(n) ELSE 1

\* Vec::resize(id, Default::default()) when the vector is shorter than id
resize(fights, id) ==
    IF Len(fights) < id
    THEN fights \o [i \in 1..(id - Len(fights)) |-> DefaultSingleFight]
    ELSE fights

\* GameState::get_fight (mod.rs:1473-1488): last_fight is made, the fights
\* grow to id, and fights.get_mut(id - 1).unwrap() is the element; for id 0
\* the subtraction overflows or, wrapped, finds no element: a panic both ways
get_fight(g, header_name) ==
    LET id == fight_id(header_name)
        fight == get_or_insert_with(g.last_fight, DefaultFight)
        g1 == [g EXCEPT !.last_fight = Some([fight EXCEPT !.fights = resize(@, id)])]
    IN  [g |-> g1, id |-> id, r |-> IF id = 0 THEN "panic" ELSE "Ok"]

\* fight id of last_fight, and the snapshot with it replaced
fight_at(g, id) == Unwrap(g.last_fight).fights[id]
with_fight(g, id, fight) ==
    [g EXCEPT !.last_fight = Some([Unwrap(@) EXCEPT !.fights[id] = fight])]

\* mod.rs:1128-1130: the value is converted before the fight is looked up
H_winnerid ==
    /\ AtField("winnerid")
    /\ LET winner == into(Cur.val) IN
       IF ~winner.ok THEN Return(gs, Unwrap(winner.v))
       ELSE LET got == get_fight(gs, Cur.key)
                set(fight) == [fight EXCEPT !.winner_id = Unwrap(winner.v)]
            IN  IF got.r # "Ok" THEN Return(got.g, got.r)
                ELSE Continue(with_fight(got.g, got.id, set(fight_at(got.g, got.id))), other_player, other_guild)

\* mod.rs:1138-1140
H_fightheader ==
    /\ AtField("fightheader")
    /\ LET got == get_fight(gs, Cur.key)
           set(fight) == [fight EXCEPT !.fighters = as_str(Cur.val)]
       IN  IF got.r # "Ok" THEN Return(got.g, got.r)
           ELSE Continue(with_fight(got.g, got.id, set(fight_at(got.g, got.id))), other_player, other_guild)

\* mod.rs:1155-1157
H_fight ==
    /\ AtField("fight")
    /\ LET got == get_fight(gs, Cur.key)
           set(fight) == [fight EXCEPT !.rounds = as_str(Cur.val)]
       IN  IF got.r # "Ok" THEN Return(got.g, got.r)
           ELSE Continue(with_fight(got.g, got.id, set(fight_at(got.g, got.id))), other_player, other_guild)

\* an arm that commits the name to the cache as soon as it is read
H_othergroupname_eager ==
    /\ AtField("othergroupname")
    /\ LET og == [get_or_insert_with(other_guild, DefaultOtherGuild) EXCEPT
                    !.name = as_str(Cur.val)] IN
       Continue([gs EXCEPT !.other_guilds = {e \in @ : e.name # og.name} \cup {og}],
                other_player, Some(og))
\* mod.rs:1158-1163
H_othergroupname ==
    /\ AtField("othergroupname")
    /\ LET og == get_or_insert_with(other_guild, DefaultOtherGuild) IN
       Continue(gs, other_player, Some([og EXCEPT !.name = as_str(Cur.val)]))

\* narrowing to an unsigned type wider than the model's integers
soft_into_unsigned(v, default) == IF v >= 0 THEN v ELSE default

\* CCGet::csiget: the element narrowed by soft_into, or an error when the
\* index is out of range
csiget(data, i, default) ==
    IF InBounds(data, i) THEN Ok(soft_into_unsigned(At(data, i), default))
    ELSE Err("ParsingError")

\* Item::parse on the window of data that starts at off: an error when the
\* window is shorter than one 12-integer record, no item for type code 0
Item_parse(data, off) ==
    IF off + 12 > data.len THEN Err("ParsingError")
    ELSE IF At(data, off) = 0 THEN Ok(None)
    ELSE Ok(Some(At(data, off)))

\* Shop::parse (mod.rs:110-138) on the window of data that starts at base:
\* the six items, or an error at the first record that is no item
RECURSIVE Shop_items(_, _, _)
Shop_items(data, base, idx) ==
    IF idx = SHOP_N THEN Ok(<<>>)
    ELSE IF base + idx * 12 > data.len THEN Err("ParsingError")
    ELSE LET item == Item_parse(data, base + idx * 12) IN
         IF ~item.ok THEN item
         ELSE IF ~IsSome(Unwrap(item.v)) THEN Err("ParsingError")
         ELSE LET rest == Shop_items(data, base, idx + 1) IN
              IF ~rest.ok THEN rest
              ELSE Ok(<<Unwrap(Unwrap(item.v))>> \o Unwrap(rest.v))

\* a decoder that leaves the place of a record that is no item as it was
\* created and returns the shop all the same
Shop_parse_partial(data, base) ==
    Ok([i \in 1..SHOP_N |->
          LET item == Item_parse(data, base + (i - 1) * 12) IN
          IF item.ok /\ IsSome(Unwrap(item.v)) THEN Unwrap(Unwrap(item.v)) ELSE 0])
Shop_parse(data, base) == Shop_items(data, base, 0)

\* the index of the fortress upgrade count in the account save
FortressUpgradesAt == 581
\* Fortress::update on the account save
Fortress_update(fortress, data) ==
    [fortress EXCEPT !.upgrades = soft_into(At(data, FortressUpgradesAt), U16Max, 0)]

\* the shortest account save update_player_save decodes (mod.rs:1301)
SaveMinLen == 700
\* the highest index update_player_save reads (mod.rs:1412)
BardInstrumentAt == 701

\* mod.rs:1341-1343: the bag, one Item::parse per slot
save_bag(data) == [i \in 1..BAG_N |-> Unwrap(Item_parse(data, 168 + (i - 1) * 12).v)]

\* An i64 is wider than the integers of the model.  Where its high bits
\* matter it is kept as two limbs, hi * 2^24 + lo with 0 <= lo < 2^24.
Limb == 256 * 65536
I64(n) == [hi |-> n \div Limb, lo |-> n % Limb]
\* v & 0xFFFF
low16(v) == v.lo % 65536
\* v >> 16, the arithmetic shift of a signed integer
shr16(v) == v.hi * 256 + v.lo \div 65536

\* a level read from the whole field
save_level_unmasked(v) == IF v.hi = 0 THEN soft_into(v.lo, U16Max, 0) ELSE 0
\* mod.rs:1315: character.level, a u16
save_level(v) == soft_into(low16(v), U16Max, 0)
\* mod.rs:1316-1317: arena.fights_for_xp; its type is not in src/, a u8 here
save_fights_for_xp(v) == soft_into(shr16(v), U8Max, 0)

\* GameState::update_player_save (mod.rs:1296-1423).  Every index below
\* SaveMinLen is in range once the length check has passed; data[701] is not.
update_player_save(g, data) ==
    LET st == ServerTimeOf(g) IN
    IF data.len < SaveMinLen THEN [g |-> g, r |-> "Ok"]
    ELSE
    LET level == save_level(I64(At(data, 7)))
        g1 == [g EXCEPT !.level = level,
                        !.fights_for_xp = save_fights_for_xp(I64(At(data, 7))),
                        !.bag = save_bag(data)]
        g2 == IF level >= 25
              THEN [g1 EXCEPT !.fortress = Some(Fortress_update(
                        get_or_insert_with(@, DefaultFortress), data))]
              ELSE g1
        weapon == Shop_parse(data, 288)
    IN  IF ~weapon.ok THEN [g |-> g2, r |-> Unwrap(weapon.v)]
        ELSE
        LET g3 == [g2 EXCEPT !.shops.weapon = Unwrap(weapon.v)]
            magic == Shop_parse(data, 361)
        IN  IF ~magic.ok THEN [g |-> g3, r |-> Unwrap(magic.v)]
            ELSE
            LET g4 == [g3 EXCEPT !.shops.magic = Unwrap(magic.v)]
                joined == convert_to_local(st, Rel(At(data, 443)))
                g5 == IF IsSome(joined)
                      THEN [g4 EXCEPT !.guild = Some(get_or_insert_with(@, DefaultGuild))]
                      ELSE g4
                g6 == [g5 EXCEPT
                         !.pets = Some([get_or_insert_with(@, DefaultPets) EXCEPT
                                   !.next_free_exploration =
                                       convert_to_local(st, Rel(At(data, 660)))]),
                         !.portal = Some([get_or_insert_with(@, DefaultPortal) EXCEPT
                                   !.player_hp_bonus =
                                       soft_into(At(data, 445) \div 16777216, U8Max, 0)]),
                         !.guild = Some(get_or_insert_with(@, DefaultGuild))]
            IN  IF ~InBounds(data, BardInstrumentAt) THEN [g |-> g6, r |-> "panic"]
                ELSE [g |-> [g6 EXCEPT !.bard_instrument =
                                 IF At(data, BardInstrumentAt) \in 1..3
                                 THEN Some(At(data, BardInstrumentAt)) ELSE None],
                      r |-> "Ok"]

\* mod.rs:219-221
H_ownplayersave ==
    /\ AtField("ownplayersave")
    /\ LET data == into_list(Cur.val) IN
       IF ~data.ok THEN Return(gs, Unwrap(data.v))
       ELSE LET out == update_player_save(gs, Unwrap(data.v)) IN
            IF out.r = "Ok" THEN Continue(out.g, other_player, other_guild)
            ELSE Return(out.g, out.r)

\* Underworld::update (underworld.rs:102-157).  Its reads are checked
\* (csiget, cget), in the order 448..457, 146..445, 459, 460, 461, 463..466,
\* 473, 474, 467..472: the first one out of range returns the error, and the
\* writes made before it stay.  data[468] is read after 474 was.
Underworld_update(u, data) ==
    IF ~InBounds(data, 448) THEN [u |-> u, r |-> "ParsingError"]
    ELSE
    LET u1 == [u EXCEPT !.building_level = soft_into(At(data, 448), U8Max, 0)] IN
    IF ~InBounds(data, 461) THEN [u |-> u1, r |-> "ParsingError"]
    ELSE
    LET u2 == [u1 EXCEPT !.souls_limit = Unwrap(csiget(data, 461, 0).v)] IN
    IF ~InBounds(data, 474) THEN [u |-> u2, r |-> "ParsingError"]
    ELSE [u |-> [u2 EXCEPT !.total_level = soft_into(At(data, 471), U16Max, 0)],
          r |-> "Ok"]

\* the integers of one Equipment block: 10 slots of 12
EquipmentLen == 120
\* Equipment::parse on the window of data that starts at off
Equipment_parse(data, off) ==
    IF off + EquipmentLen > data.len THEN Err("ParsingError") ELSE Ok(off)

\* the number of companion classes
CompanionClasses == 3

\* mod.rs:249-260: the companions, from class i on: data[comp_start] and the
\* two windows are taken by direct indexing
RECURSIVE tower_companions(_, _)
tower_companions(data, i) ==
    IF i = CompanionClasses THEN "Ok"
    ELSE LET comp_start == 3 + i * 148 IN
         IF ~InBounds(data, comp_start) \/ comp_start + 22 > data.len THEN "panic"
         ELSE IF ~Equipment_parse(data, comp_start + 22).ok THEN "ParsingError"
         ELSE tower_companions(data, i + 1)

\* mod.rs:242-265
owntower(g, val) ==
    LET data == into_list(val) IN
    IF ~data.ok THEN [g |-> g, r |-> Unwrap(data.v)]
    ELSE
    LET d == Unwrap(data.v)
        companions == tower_companions(d, 0)
    IN  IF companions # "Ok" THEN [g |-> g, r |-> companions]
        ELSE LET out == Underworld_update(
                            get_or_insert_with(g.underworld, DefaultUnderworld), d)
             IN  [g |-> [g EXCEPT !.underworld = Some(out.u)], r |-> out.r]

H_owntower ==
    /\ AtField("owntower")
    /\ LET out == owntower(gs, Cur.val) IN
       IF out.r = "Ok" THEN Continue(out.g, other_player, other_guild)
       ELSE Return(out.g, out.r)

\* the number of DiceType variants
DiceTypes == 7

\* mod.rs:304-316: a Vec<u32>, indexed directly; data[0] - 1 underflows for
\* data[0] = 0, which panics in a build with overflow checks and wraps to
\* u32::MAX (no DiceType) in a build without them
dicereward(g, val, overflow_checks) ==
    LET data == into_list(val) IN
    IF ~data.ok THEN [g |-> g, r |-> Unwrap(data.v)]
    ELSE
    LET d == Unwrap(data.v) IN
    IF \E i \in DOMAIN d.at : d.at[i] < 0 THEN [g |-> g, r |-> "ParsingError"]
    ELSE IF ~InBounds(d, 0) THEN [g |-> g, r |-> "panic"]
    ELSE IF At(d, 0) = 0
    THEN [g |-> g, r |-> IF overflow_checks THEN "panic" ELSE "ParsingError"]
    ELSE IF At(d, 0) - 1 >= DiceTypes THEN [g |-> g, r |-> "ParsingError"]
    ELSE IF ~InBounds(d, 1) THEN [g |-> g, r |-> "panic"]
    ELSE [g |-> [g EXCEPT !.dice_reward =
                     Some([win_typ |-> At(d, 0) - 1, amount |-> At(d, 1)])],
          r |-> "Ok"]

H_dicereward ==
    /\ AtField("dicereward")
    /\ \E overflow_checks \in BOOLEAN :
         LET out == dicereward(gs, Cur.val, overflow_checks) IN
         IF out.r = "Ok" THEN Continue(out.g, other_player, other_guild)
         ELSE Return(out.g, out.r)

\* GameState::update_gttime (mod.rs:1425-1435): data[0], data[1], data[3]
update_gttime(g, data, st) ==
    IF ~InBounds(data, 0) THEN [g |-> g, r |-> "panic"]
    ELSE
    LET g1 == [g EXCEPT !.hellevator.start = convert_to_local(st, Rel(At(data, 0)))] IN
    IF ~InBounds(data, 1) THEN [g |-> g1, r |-> "panic"]
    ELSE
    LET g2 == [g1 EXCEPT !.hellevator.end = convert_to_local(st, Rel(At(data, 1)))] IN
    IF ~InBounds(data, 3) THEN [g |-> g2, r |-> "panic"]
    ELSE [g |-> [g2 EXCEPT !.hellevator.collect_time_end =
                     convert_to_local(st, Rel(At(data, 3)))],
          r |-> "Ok"]

\* mod.rs:410-412
H_gttime ==
    /\ AtField("gttime")
    /\ LET data == into_list(Cur.val) IN
       IF ~data.ok THEN Return(gs, Unwrap(data.v))
       ELSE LET out == update_gttime(gs, Unwrap(data.v), server_time) IN
            IF out.r = "Ok" THEN Continue(out.g, other_player, other_guild)
            ELSE Return(out.g, out.r)

\* the number of HabitatType variants
Habitats == 5

\* GameState::update_resources (mod.rs:1437-1462): res[1] .. res[16], read
\* in the order 1, 2, 4, 3, 9, 10, 5, 7, 12.., 11
update_resources(g, res) ==
    IF ~InBounds(res, 4) THEN [g |-> g, r |-> "panic"]
    ELSE
    LET bs == get_or_insert_with(g.blacksmith, DefaultBlacksmith)
        g1 == [g EXCEPT !.blacksmith = Some(bs)]
    IN  IF ~InBounds(res, 10) THEN [g |-> g1, r |-> "panic"]
        ELSE
        LET g2 == [g1 EXCEPT
                     !.blacksmith = Some([bs EXCEPT
                         !.metal = soft_into_unsigned(At(res, 9), 0),
                         !.arcane = soft_into_unsigned(At(res, 10), 0)]),
                     !.fortress = Some(get_or_insert_with(@, DefaultFortress)),
                     !.pets = Some(get_or_insert_with(@, DefaultPets))]
        IN  IF ~InBounds(res, 12 + Habitats - 1) THEN [g |-> g2, r |-> "panic"]
            ELSE [g |-> [g2 EXCEPT !.underworld = Some(
                             [get_or_insert_with(@, DefaultUnderworld) EXCEPT
                                !.souls_current = soft_into_unsigned(At(res, 11), 0)])],
                  r |-> "Ok"]

\* mod.rs:446-448
H_resources ==
    /\ AtField("resources")
    /\ LET data == into_list(Cur.val) IN
       IF ~data.ok THEN Return(gs, Unwrap(data.v))
       ELSE LET out == update_resources(gs, Unwrap(data.v)) IN
            IF out.r = "Ok" THEN Continue(out.g, other_player, other_guild)
            ELSE Return(out.g, out.r)

\* Location::from_i64: the place a number names, if it names one
Location_from_i64(v) == IF v \in 1..21 THEN Some(v) ELSE None

\* DailyTaskType::parse (rewards.rs:586-641)
DailyTaskType_parse(val) ==
    CASE val \in 1..24 -> <<"DailyTaskType", val>>
      [] val \in 25..45 ->
            IF IsSome(Location_from_i64(val - 24))
            THEN <<"TravelTo", Unwrap(Location_from_i64(val - 24))>>
            ELSE <<"Unknown">>
      [] val \in 46..58 \cup {77, 92} -> <<"DailyTaskType", val>>
      [] OTHER -> <<"Unknown">>

\* DailyTask::parse (rewards.rs:538-547) on the 4-integer chunk at off
DailyTask_parse(data, off) ==
    [typ |-> DailyTaskType_parse(At(data, off)),
     current |-> soft_into_unsigned(At(data, off + 1), 0),
     target |-> soft_into_unsigned(At(data, off + 2), 999),
     point_reward |-> soft_into_unsigned(At(data, off + 3), 0)]

\* mod.rs:964-977: data[1..] is sliced directly
dailytasklist(g, val) ==
    LET data == into_list(val) IN
    IF ~data.ok THEN [g |-> g, r |-> Unwrap(data.v)]
    ELSE
    LET d == Unwrap(data.v)
        g1 == [g EXCEPT !.daily_tasks = <<>>]
    IN  IF d.len < 1 THEN [g |-> g1, r |-> "panic"]
        ELSE [g |-> [g EXCEPT !.daily_tasks =
                         [c \in 1..((d.len - 1) \div 4) |->
                             DailyTask_parse(d, 1 + (c - 1) * 4)]],
              r |-> "Ok"]

H_dailytasklist ==
    /\ AtField("dailytasklist")
    /\ LET out == dailytasklist(gs, Cur.val) IN
       IF out.r = "Ok" THEN Continue(out.g, other_player, other_guild)
       ELSE Return(out.g, out.r)

DefaultOtherPlayer ==
    [player_id |-> 0, level |-> 0, name |-> "", description |-> "",
     guild |-> None, relationship |-> 0, pet_attribute_bonus_perc |-> 0,
     wall_combat_lvl |-> 0, fortress_rank |-> None]

\* mod.rs:1093-1101: data[0] is indexed directly
otherplayerunitlevel(op, val) ==
    LET data == into_list(val) IN
    IF ~data.ok THEN [op |-> op, r |-> Unwrap(data.v)]
    ELSE IF ~InBounds(Unwrap(data.v), 0) THEN [op |-> op, r |-> "panic"]
    ELSE [op |-> Some([get_or_insert_with(op, DefaultOtherPlayer) EXCEPT
                    !.wall_combat_lvl = soft_into(At(Unwrap(data.v), 0), U16Max, 0)]),
          r |-> "Ok"]

H_otherplayerunitlevel ==
    /\ AtField("otherplayerunitlevel")
    /\ LET out == otherplayerunitlevel(other_player, Cur.val) IN
       IF out.r = "Ok" THEN Continue(gs, out.op, other_guild)
       ELSE Return(gs, out.r)

\* mod.rs:483-487
H_fortresswalllevel ==
    /\ AtField("fortresswalllevel")
    /\ LET lvl == into(Cur.val) IN
       IF ~lvl.ok THEN Return(gs, Unwrap(lvl.v))
       ELSE Continue([gs EXCEPT !.fortress =
                          Some([get_or_insert_with(@, DefaultFortress) EXCEPT
                                   !.wall_combat_lvl = Unwrap(lvl.v)])],
                     other_player, other_guild)

\* mod.rs:1028-1033
H_singleportalenemylevel ==
    /\ AtField("singleportalenemylevel")
    /\ LET lvl == into(Cur.val) IN
       IF ~lvl.ok THEN Return(gs, Unwrap(lvl.v))
       ELSE Continue([gs EXCEPT !.portal =
                          Some([get_or_insert_with(@, DefaultPortal) EXCEPT
                                   !.enemy_level = Unwrap(lvl.v)])],
                     other_player, other_guild)

\* i64::MIN, which stands at the least integer of the model
I64Min == -2147483647

\* the decimal texts the tables of the model use, with their values
Numerals ==
    ("0" :> 0) @@ ("1" :> 1) @@ ("2" :> 2) @@ ("3" :> 3) @@ ("7" :> 7)
    @@ ("50" :> 50) @@ ("900" :> 900) @@ ("-9223372036854775808" :> I64Min)

\* warning_from_str: the number a text spells, if it spells one
warning_from_str(text) ==
    IF text \in DOMAIN Numerals THEN Some(Numerals[text]) ELSE None

\* the number of Class variants
Classes == 9

\* mod.rs:561-597: the entry one record of Ranklistplayer yields, if any
hof_player(data) ==
    IF Len(data) < 6 THEN None
    ELSE
    LET rank == warning_from_str(data[1])
        level == warning_from_str(data[4])
        fame == warning_from_str(data[5])
        class == warning_from_str(data[6])
    IN  IF ~(IsSome(rank) /\ IsSome(level) /\ IsSome(fame) /\ IsSome(class))
        THEN None
        ELSE IF Unwrap(class) = I64Min THEN None
        ELSE IF ~(Unwrap(class) - 1 \in 0..(Classes - 1)) THEN None
        ELSE Some([rank |-> Unwrap(rank),
                   name |-> data[2],
                   guild |-> IF data[3] = "" THEN None ELSE Some(data[3]),
                   level |-> Unwrap(level),
                   fame |-> Unwrap(fame),
                   class |-> Unwrap(class) - 1,
                   flag |-> IF Len(data) >= 7 THEN data[7] ELSE ""])

RECURSIVE hof_players(_)
hof_players(rows) ==
    IF rows = <<>> THEN <<>>
    ELSE LET e == hof_player(Head(rows)) IN
         (IF IsSome(e) THEN <<Unwrap(e)>> ELSE <<>>) \o hof_players(Tail(rows))

\* mod.rs:577: `class - 1` on an i64 read from the text overflows for
\* i64::MIN, in a record whose count and numbers passed the checks before it
class_overflows(data) ==
    /\ Len(data) >= 6
    /\ \A i \in {1, 4, 5, 6} : IsSome(warning_from_str(data[i]))
    /\ Unwrap(warning_from_str(data[6])) = I64Min

\* the place of the first record whose class overflows, 0 if there is none
first_overflow(rows) ==
    IF \E i \in 1..Len(rows) : class_overflows(rows[i])
    THEN CHOOSE i \in 1..Len(rows) :
            /\ class_overflows(rows[i])
            /\ \A j \in 1..(i - 1) : ~class_overflows(rows[j])
    ELSE 0

\* mod.rs:558-599: in a build with overflow checks the subtraction panics
\* with the records before it pushed; in a build without them it wraps to
\* i64::MAX, which is no class, and the record is dropped
Ranklistplayer(rows, overflow_checks) ==
    IF overflow_checks /\ first_overflow(rows) # 0
    THEN [table |-> hof_players(SubSeq(rows, 1, first_overflow(rows) - 1)),
          r |-> "panic"]
    ELSE [table |-> hof_players(rows), r |-> "Ok"]

H_Ranklistplayer ==
    /\ AtField("Ranklistplayer")
    /\ \E overflow_checks \in BOOLEAN :
         LET out == Ranklistplayer(Cur.val.rows, overflow_checks)
             g == [gs EXCEPT !.player_hall_of_fame = out.table]
         IN  IF out.r = "Ok" THEN Continue(g, other_player, other_guild)
             ELSE Return(g, out.r)

\* mod.rs:1164-1167
H_othergrouprank ==
    /\ AtField("othergrouprank")
    /\ LET rank == into(Cur.val) IN
       IF ~rank.ok THEN Return(gs, Unwrap(rank.v))
       ELSE Continue(gs, other_player,
                     Some([get_or_insert_with(other_guild, DefaultOtherGuild) EXCEPT
                              !.rank = Unwrap(rank.v)]))

\* mod.rs:472-477
H_otherplayername ==
    /\ AtField("otherplayername")
    /\ Continue(gs, Some([get_or_insert_with(other_player, DefaultOtherPlayer) EXCEPT
                              !.name = as_str(Cur.val)]),
                other_guild)

\* mod.rs:466-471: an empty text is no guild
H_otherplayergroupname ==
    /\ AtField("otherplayergroupname")
    /\ Continue(gs, Some([get_or_insert_with(other_player, DefaultOtherPlayer) EXCEPT
                              !.guild = IF as_str(Cur.val) = "" THEN None
                                        ELSE Some(as_str(Cur.val))]),
                other_guild)

\* mod.rs:1111-1119: a negative rank is no rank
H_otherplayerfortressrank ==
    /\ AtField("otherplayerfortressrank")
    /\ LET rank == into(Cur.val) IN
       IF ~rank.ok THEN Return(gs, Unwrap(rank.v))
       ELSE Continue(gs, Some([get_or_insert_with(other_player, DefaultOtherPlayer) EXCEPT
                                  !.fortress_rank = IF Unwrap(rank.v) <= -1 THEN None
                                                    ELSE Some(Unwrap(rank.v))]),
                     other_guild)

\* the least length of an otherplayer array that decodes
OtherPlayerMinLen == 3

\* OtherPlayer::parse: the id and the level of the array, the rest as a new
\* entry has it; an array too short to hold them is an error
OtherPlayer_parse(data) ==
    IF data.len < OtherPlayerMinLen THEN Err("ParsingError")
    ELSE Ok([DefaultOtherPlayer EXCEPT !.player_id = At(data, 0),
                                       !.level = At(data, 2)])

\* mod.rs:1065-1075: the staged entry hands its seven fields to the new one
carry_over(op, oop) ==
    [op EXCEPT !.name = oop.name,
               !.description = oop.description,
               !.guild = oop.guild,
               !.relationship = oop.relationship,
               !.pet_attribute_bonus_perc = oop.pet_attribute_bonus_perc,
               !.wall_combat_lvl = oop.wall_combat_lvl,
               !.fortress_rank = oop.fortress_rank]

\* an arm that keeps the staged entry when the array does not decode
H_otherplayer_keeping ==
    /\ AtField("otherplayer")
    /\ LET data == into_list(Cur.val) IN
       IF ~data.ok THEN Return(gs, Unwrap(data.v))
       ELSE LET op == OtherPlayer_parse(Unwrap(data.v)) IN
            Continue(gs,
                     IF ~op.ok THEN other_player
                     ELSE Some(IF IsSome(other_player)
                               THEN carry_over(Unwrap(op.v), Unwrap(other_player))
                               ELSE Unwrap(op.v)),
                     other_guild)

\* mod.rs:1055-1077: an array that does not decode drops the staged entry
\* and the loop goes on
H_otherplayer ==
    /\ AtField("otherplayer")
    /\ LET data == into_list(Cur.val) IN
       IF ~data.ok THEN Return(gs, Unwrap(data.v))
       ELSE LET op == OtherPlayer_parse(Unwrap(data.v)) IN
            IF ~op.ok THEN Continue(gs, None, other_guild)
            ELSE Continue(gs,
                          Some(IF IsSome(other_player)
                               THEN carry_over(Unwrap(op.v), Unwrap(other_player))
                               ELSE Unwrap(op.v)),
                          other_guild)

\* PetItem::parse: the pet item a code names, if it names one
PetItemCodes == {1, 2}
PetItem_parse(val) == IF val \in PetItemCodes THEN Some(val) ELSE None

\* a choice that takes the kind of the other context
by_context_swapped(upgraded, then, else) == IF upgraded THEN else ELSE then
\* rewards.rs:55-59, 91-97: `if upgraded { .. } else { .. }`
by_context(upgraded, then, else) == IF upgraded THEN then ELSE else

\* WheelReward::parse (rewards.rs:48-107)
WheelReward_parse(data, upgraded) ==
    IF ~InBounds(data, 0) \/ ~InBounds(data, 1) THEN Err("ParsingError")
    ELSE
    LET raw_typ == At(data, 0)
        amount == At(data, 1)
        plain(t) == Ok([typ |-> t, pet_item |-> None, amount |-> amount])
    IN  CASE raw_typ = 0 -> plain("Mushrooms")
          [] raw_typ = 1 -> plain(by_context(upgraded, "Arcane", "Wood"))
          [] raw_typ = 2 -> plain("ExperienceXL")
          [] raw_typ = 3 ->
                IF upgraded
                THEN IF IsSome(PetItem_parse(amount))
                     THEN Ok([typ |-> "PetItem", pet_item |-> PetItem_parse(amount),
                              amount |-> 1])
                     ELSE Err("ParsingError")
                ELSE plain("Stone")
          [] raw_typ = 4 -> plain("SilverXL")
          [] raw_typ = 5 -> Ok([typ |-> "Item", pet_item |-> None, amount |-> 1])
          [] raw_typ = 6 -> plain("WoodXL")
          [] raw_typ = 7 -> plain("Experience")
          [] raw_typ = 8 -> plain("StoneXL")
          [] raw_typ = 9 -> plain(by_context(upgraded, "Souls", "Silver"))
          [] OTHER -> plain("Unknown")

\* HabitatType::from_typ_id: the habitat an id names, if it names one
HabitatType_from_typ_id(id) == IF id \in 1..Habitats THEN Some(id) ELSE None

\* CalendarReward::parse (rewards.rs:142-183)
CalendarReward_parse(data) ==
    IF ~InBounds(data, 1) \/ ~InBounds(data, 0) THEN Err("ParsingError")
    ELSE
    LET amount == At(data, 1)
        x == At(data, 0)
        typ == CASE x = 1 -> <<"Silver">>
                 [] x = 2 -> <<"Mushrooms">>
                 [] x = 3 -> <<"Experience">>
                 [] x = 4 -> <<"Wood">>
                 [] x = 5 -> <<"Stone">>
                 [] x = 6 -> <<"Souls">>
                 [] x = 7 -> <<"Arcane">>
                 [] x = 8 -> <<"Runes">>
                 [] x = 10 -> <<"Item">>
                 [] x \in 11..15 -> <<"Attribute", x - 10>>
                 [] x \in 16..20 ->
                       IF IsSome(HabitatType_from_typ_id(x - 15))
                       THEN <<"Fruit", Unwrap(HabitatType_from_typ_id(x - 15))>>
                       ELSE <<"Unknown">>
                 [] x = 21 -> <<"LevelUp">>
                 [] x = 22 -> <<"Potion", "EternalLife">>
                 [] x = 23 -> <<"TenQuicksandGlasses">>
                 [] x \in 24..28 -> <<"Potion", x - 23>>
                 [] OTHER -> <<"Unknown">>
    IN  Ok([typ |-> typ, amount |-> amount])

\* the discriminants of RewardTyp (rewards.rs:497-508)
RewardTypCodes == {2, 3, 4, 5, 9, 10, 24, 26, 28, 999}

\* Reward::parse (rewards.rs:453-462)
Reward_parse(data) ==
    IF ~InBounds(data, 0) \/ ~InBounds(data, 1) THEN Err("ParsingError")
    ELSE Ok([typ |-> IF At(data, 0) \in RewardTypCodes THEN <<"RewardTyp", At(data, 0)>>
                     ELSE <<"Unknown">>,
             amount |-> soft_into_unsigned(At(data, 1), 0)])

\* &data[i..]: the window of data from index i on, for i <= data.len
Window(data, i) ==
    Sparse(data.len - i, [j \in 0..(data.len - i - 1) |-> At(data, i + j)])

\* the offsets of the rewards when both layouts hold two of them
chest_indices_always_two(len) == <<3, 5>>
\* rewards.rs:468-471: the offsets of the rewards, by the length of the input
chest_indices(len) == IF len = 5 THEN <<3>> ELSE <<3, 5>>

\* RewardChest::parse (rewards.rs:464-482).  A window that starts beyond the
\* end of data is an index out of range; data[0] is indexed directly, after
\* the rewards.
RewardChest_parse(data) ==
    LET indices == chest_indices(data.len)
        slot(k) == IF k <= Len(indices)
                   THEN Some(Unwrap(Reward_parse(Window(data, indices[k])).v))
                   ELSE None
    IN  IF \E k \in 1..Len(indices) : indices[k] > data.len THEN Err("panic")
        ELSE IF \E k \in 1..Len(indices) : ~Reward_parse(Window(data, indices[k])).ok
        THEN Err("ParsingError")
        ELSE Ok([opened |-> At(data, 0) = 1, reward |-> <<slot(1), slot(2)>>])

\* the codes EventTaskTyp::parse knows (rewards.rs:376-409)
EventTaskCodes == {12} \cup 48..57 \cup 65..72 \cup 75..85 \cup {90, 91, 92}

\* EventTaskTyp::parse (rewards.rs:375-415)
EventTaskTyp_parse(num) ==
    IF num \in EventTaskCodes THEN <<"EventTaskTyp", num>> ELSE <<"Unknown">>

\* a context taken from the snapshot as it was when update was called
wheel_upgraded_at_entry(g) ==
    entry.level >= 95 /\ IsSome(entry.pets) /\ IsSome(entry.underworld)
\* mod.rs:492-494: the wheel counts as upgraded from what the snapshot
\* holds when the field is reached
wheel_upgraded(g) == g.level >= 95 /\ IsSome(g.pets) /\ IsSome(g.underworld)

\* mod.rs:492-502
wheelresult(g, val) ==
    LET data == into_list(val) IN
    IF ~data.ok THEN [g |-> g, r |-> Unwrap(data.v)]
    ELSE LET res == WheelReward_parse(Unwrap(data.v), wheel_upgraded(g)) IN
         IF ~res.ok THEN [g |-> g, r |-> Unwrap(res.v)]
         ELSE [g |-> [g EXCEPT !.wheel_result = Some(Unwrap(res.v))], r |-> "Ok"]

H_wheelresult ==
    /\ AtField("wheelresult")
    /\ LET out == wheelresult(gs, Cur.val) IN
       IF out.r = "Ok" THEN Continue(out.g, other_player, other_guild)
       ELSE Return(out.g, out.r)

\* ArrSkip::skip: the window of data from off on, an error when off is
\* beyond the end of data; a window that starts at the end is empty
skip(data, off) == IF off > data.len THEN Err("ParsingError") ELSE Ok(off)

\* UnderworldCost::parse (underworld.rs:63-72) on the window of data that
\* starts at off: data[0] is indexed directly, the other two by csiget
UnderworldCost_parse(data, off) ==
    IF ~InBounds(data, off) THEN [r |-> "panic", cost |-> DefaultUnderworldCost]
    ELSE IF ~csiget(data, off + 1, 0).ok \/ ~csiget(data, off + 2, 0).ok
    THEN [r |-> "ParsingError", cost |-> DefaultUnderworldCost]
    ELSE [r |-> "Ok",
          cost |-> [time |-> soft_into_unsigned(At(data, off), 0),
                    silver |-> Unwrap(csiget(data, off + 1, 0).v),
                    souls |-> Unwrap(csiget(data, off + 2, 0).v)]]

\* Underworld::update_building_prices (underworld.rs:75-85), from the
\* building number typ on
RECURSIVE update_building_prices(_, _, _)
update_building_prices(u, data, typ) ==
    IF typ = UnderworldBuildings THEN [u |-> u, r |-> "Ok"]
    ELSE LET window == skip(data, typ * 3) IN
         IF ~window.ok THEN [u |-> u, r |-> Unwrap(window.v)]
         ELSE LET parsed == UnderworldCost_parse(data, Unwrap(window.v)) IN
              IF parsed.r # "Ok" THEN [u |-> u, r |-> parsed.r]
              ELSE update_building_prices(
                       [u EXCEPT !.upgrade_cost[typ] = parsed.cost], data, typ + 1)

\* mod.rs:755-758: the receiver is materialized before the value is
\* converted
H_underworldprice ==
    /\ AtField("underworldprice")
    /\ LET u == get_or_insert_with(gs.underworld, DefaultUnderworld)
           data == into_list(Cur.val)
       IN  IF ~data.ok
           THEN Return([gs EXCEPT !.underworld = Some(u)], Unwrap(data.v))
           ELSE LET out == update_building_prices(u, Unwrap(data.v), 0) IN
                IF out.r = "Ok"
                THEN Continue([gs EXCEPT !.underworld = Some(out.u)],
                              other_player, other_guild)
                ELSE Return([gs EXCEPT !.underworld = Some(out.u)], out.r)

\* u64::MAX, which is beyond the integers of the model: the largest of them
\* stands for it
U64Max == 2147483647

\* EventTask::parse (rewards.rs:427-437) on the 4-integer chunk at off
EventTask_parse(data, off) ==
    [typ |-> EventTaskTyp_parse(At(data, off)),
     current |-> soft_into_unsigned(At(data, off + 1), 0),
     target |-> soft_into_unsigned(At(data, off + 2), U64Max),
     point_reward |-> soft_into_unsigned(At(data, off + 3), 0)]

\* mod.rs:947-954: the list is emptied, then one task per whole chunk of 4
H_eventtasklist ==
    /\ AtField("eventtasklist")
    /\ LET data == into_list(Cur.val) IN
       IF ~data.ok THEN Return(gs, Unwrap(data.v))
       ELSE LET d == Unwrap(data.v) IN
            Continue([gs EXCEPT !.event_tasks =
                         [c \in 1..(d.len \div 4) |-> EventTask_parse(d, (c - 1) * 4)]],
                     other_player, other_guild)

\* mod.rs:456-460: the value is converted before pets is materialized
H_maxpetlevel ==
    /\ AtField("maxpetlevel")
    /\ LET lvl == into(Cur.val) IN
       IF ~lvl.ok THEN Return(gs, Unwrap(lvl.v))
       ELSE LET pets == get_or_insert_with(gs.pets, DefaultPets) IN
            Continue([gs EXCEPT !.pets = Some([pets EXCEPT !.max_pet_level = Unwrap(lvl.v)])],
                     other_player, other_guild)

\* HashMap::insert(og.name.clone(), og) on other_guilds, a map kept as the
\* set of its entries, at most one per name
insert_other_guild(m, og) == {e \in m : e.name # og.name} \cup {og}

\* HallOfFames::insert_lookup: the entry replaces the one of the same player
\* id, after taking from it the name and the wall level it does not bring
insert_lookup(m, op) ==
    LET old == {e \in m : e.player_id = op.player_id}
        filled == IF old = {} THEN op
                  ELSE LET o == CHOOSE e \in old : TRUE IN
                       [op EXCEPT !.name = IF @ = "" THEN o.name ELSE @,
                                  !.description = IF @ = "" THEN o.description ELSE @,
                                  !.guild = IF @ = None THEN o.guild ELSE @,
                                  !.relationship = IF @ = 0 THEN o.relationship ELSE @,
                                  !.pet_attribute_bonus_perc =
                                      IF @ = 0 THEN o.pet_attribute_bonus_perc ELSE @,
                                  !.wall_combat_lvl = IF @ = 0 THEN o.wall_combat_lvl ELSE @,
                                  !.fortress_rank = IF @ = None THEN o.fortress_rank ELSE @]
    IN  (m \ old) \cup {filled}

\* a pass that prunes nothing
prune_never(o, empty) == o
\* mod.rs:1230-1254: a sub-state at its empty sentinel becomes None
prune(o, empty) == IF IsSome(o) /\ empty THEN None ELSE o

\* mod.rs:1220-1255: the reconciliation pass
reconcile(g, og, op) ==
    LET g0 == IF IsSome(og)
              THEN [g EXCEPT !.other_guilds = insert_other_guild(@, Unwrap(og))]
              ELSE g
        g1 == IF IsSome(op)
              THEN [g0 EXCEPT !.lookup = insert_lookup(@, Unwrap(op))]
              ELSE g0
    IN  [g1 EXCEPT
           !.portal = prune(@, IsSome(@) /\ Unwrap(@).current = 0),
           !.pets = prune(@, IsSome(@) /\ Unwrap(@).rank = 0),
           !.guild = prune(@, IsSome(@) /\ Unwrap(@).name = ""),
           !.fortress = prune(@, IsSome(@) /\ Unwrap(@).upgrades = 0),
           !.underworld = prune(@, IsSome(@) /\ Unwrap(@).honor = 0)]

Reconcile ==
    /\ pc = "loop"
    /\ pos > Len(resp)
    /\ gs' = reconcile(gs, other_guild, other_player)
    /\ reconciled' = TRUE
    /\ pc' = "done"
    /\ result' = "Ok"
    /\ UNCHANGED <<zone, resp, received, pos, server_time, other_player,
                   other_guild, entry, calls, conv>>

\* update has returned: the response and the locals of the call are gone
Finish ==
    /\ pc = "done"
    /\ result # "panic"
    /\ pc' = "idle"
    /\ resp' = <<>>
    /\ received' = 0
    /\ pos' = 0
    /\ server_time' = 0
    /\ other_player' = None
    /\ other_guild' = None
    /\ result' = "none"
    /\ entry' = gs
    /\ reconciled' = FALSE
    /\ UNCHANGED <<gs, zone, calls, conv>>

----------------------------------------------------------------------------
(* Inputs *)

UTC == [before |-> 0, after |-> 0, at |-> 0]
East == [before |-> 3600, after |-> 3600, at |-> 0]
\* a zone whose clocks go forward one hour at 1_700_000_000, and one whose
\* clocks go back one hour then
Spring == [before |-> 3600, after |-> 7200, at |-> Rel(1700000000)]
Fall == [before |-> 7200, after |-> 3600, at |-> Rel(1700000000)]

DistinctKeys(r) == \A i, j \in 1..Len(r) : i # j => r[i].key # r[j].key

\* the responses made of the fields U: at most max fields, no name twice
ResponsesOver(U, max) ==
    { r \in UNION { [1..n -> U] : n \in 0..max } : DistinctKeys(r) }

\* response.received_at(), in Rel seconds
ReceivedAt == { Rel(1700000000) - 7200, Rel(1700000000) + 30 }

\* an account save of n integers: six items in each shop, the level, the
\* fortress upgrade count, the time of the next pet exploration and the
\* bard's instrument, as far as n reaches
Save(n, level, upgrades, pet_time) ==
    Sparse(n, [i \in ({288 + 12 * k : k \in 0..5} \cup {361 + 12 * k : k \in 0..5}
                      \cup {7, 168, FortressUpgradesAt, 660, BardInstrumentAt})
                     \cap 0..(n - 1)
               |-> CASE i = 7 -> level
                     [] i = 168 -> 4
                     [] i = FortressUpgradesAt -> upgrades
                     [] i = 660 -> pet_time
                     [] i = BardInstrumentAt -> 2
                     [] OTHER -> 1 + (i % 5)])

\* the list data with the integer at index i replaced by v
Override(data, i, v) == [data EXCEPT !.at = [j \in DOMAIN @ \cup {i} |-> IF j = i THEN v ELSE @[j]]]

\* a list of n integers, all of them v
Filled(n, v) == Sparse(n, [i \in 0..(n - 1) |-> v])

InitIn(Z) ==
    /\ gs = DefaultGameState
    /\ zone \in Z
    /\ pc = "idle"
    /\ resp = <<>>
    /\ received = 0
    /\ pos = 0
    /\ server_time = 0
    /\ other_player = None
    /\ other_guild = None
    /\ result = "none"
    /\ entry = DefaultGameState
    /\ reconciled = FALSE
    /\ calls = 0
    /\ conv = [called |-> FALSE, off |-> 0, ts |-> 0, res |-> None]

Init == InitIn({UTC, East})

----------------------------------------------------------------------------
(* The clock: responses with and without a timestamp *)

ClockFields ==
    { Field("timestamp", IntV(1700000000)),
      Field("timestamp", StrV("x")),
      Field("timestamp", BigV),
      Field("tavernspecialend", IntV(1700000500)),
      Field("smith", ListV(Dense(<<3, 1700000400>>))),
      Field("ownplayersave", ListV(Save(702, 30, 3, 1700000600))),
      Field("ownplayername", StrV("Foo")) }

UpdateClock ==
    \E r \in ResponsesOver(ClockFields, MaxFields), rcv \in ReceivedAt : Begin(r, rcv)

NextClock ==
    \/ UpdateClock
    \/ H_timestamp
    \/ H_tavernspecialend
    \/ H_smith
    \/ H_ownplayersave
    \/ H_ownplayername
    \/ Reconcile
    \/ Finish

SpecClock == Init /\ [][NextClock]_vars

\* the instant convert_to_local is to give for the raw value of a field, under
\* the offset of a response with server epoch ts received at rcv
ExpectedLocal(ts, rcv, raw) == Latest(LocalCandidates(zone, Rel(raw) - (Rel(ts) - rcv)))

\* the fields of the response handled so far
Handled(k) == \E i \in 1..Len(resp) : i < pos /\ resp[i].key = k

\* C3: in an update whose response has a "timestamp" field, every time the
\* other fields of that call converted (tavernspecialend, smith, the pet
\* exploration time of ownplayersave) was converted with the offset of that
\* response's timestamp, wherever "timestamp" stands among the fields.
C3_ConversionsUseNewOffset ==
    (pc \in {"loop", "done"} /\ pos >= 1 /\ HasKey(resp, "timestamp")) =>
        LET ts == ValueOf(resp, "timestamp").n IN
        /\ Handled("tavernspecialend") =>
              gs.events_ends =
                  ExpectedLocal(ts, received, ValueOf(resp, "tavernspecialend").n)
        /\ (Handled("smith") /\ IsSome(gs.blacksmith)) =>
              Unwrap(gs.blacksmith).last_dismantled =
                  ExpectedLocal(ts, received, At(ValueOf(resp, "smith").d, 1))
        /\ (Handled("ownplayersave") /\ IsSome(gs.pets)) =>
              Unwrap(gs.pets).next_free_exploration =
                  ExpectedLocal(ts, received, At(ValueOf(resp, "ownplayersave").d, 660))

\* C3 happens: a call has ended with Ok whose "timestamp" came after the time
\* field it converted, and changed the offset the snapshot held at its entry
C3_Witness ==
    /\ pc = "done" /\ result = "Ok"
    /\ Len(resp) = 2
    /\ resp[1].key = "tavernspecialend" /\ resp[2].key = "timestamp"
    /\ entry.server_time_diff # gs.server_time_diff
    /\ entry.server_time_diff # 0
    /\ IsSome(gs.events_ends)

\* C4: during and after an update whose response has a "timestamp" of server
\* epoch T, received at R, the clock offset is T - R; during and after one
\* whose response has none (or one that is no date) it is the offset the
\* snapshot held when the call began.
C4_OffsetIsServerMinusLocal ==
    (pc \in {"loop", "done"}) =>
        IF HasKey(resp, "timestamp") /\ ValueOf(resp, "timestamp").t = "int"
        THEN gs.server_time_diff = Rel(ValueOf(resp, "timestamp").n) - received
        ELSE gs.server_time_diff = entry.server_time_diff

\* C4 happens: the second call had no "timestamp" and ended with the negative
\* offset the first call had set
C4_Witness ==
    /\ calls = 2 /\ pc = "done" /\ result = "Ok"
    /\ ~HasKey(resp, "timestamp")
    /\ Len(resp) >= 1
    /\ gs.server_time_diff = -30

----------------------------------------------------------------------------
(* The account save: arrays around the length update_player_save asks for *)

SaveLens == (SaveMinLen - 1)..(SaveMinLen + SaveSlack)

SaveFields ==
    { Field("ownplayersave", ListV(Save(n, level, 3, 1700000600))) :
          n \in SaveLens, level \in {10, 30} }
    \cup { Field("ownplayersave", ListV(Override(Save(n, 30, 3, 0), 312, 0))) :
              n \in SaveLens }
    \cup { Field("ownplayersave", StrV("x")),
           Field("ownplayername", StrV("Foo")),
           Field("Success", StrV("")),
           Field("timestamp", IntV(1700000000)) }

UpdateSave ==
    \E r \in ResponsesOver(SaveFields, MaxFields), rcv \in ReceivedAt : Begin(r, rcv)

NextSave ==
    \/ UpdateSave
    \/ H_timestamp
    \/ H_skipped
    \/ H_ownplayersave
    \/ H_ownplayername
    \/ Reconcile
    \/ Finish

SpecSave == InitIn({UTC}) /\ [][NextSave]_vars

\* C1: an update whose response has an ownplayersave array of 700 integers or
\* more ends with Ok or a typed error, never with a read past the end of the
\* array.
C1_SaveNeverReadsPastEnd ==
    (pc = "done" /\ HasKey(resp, "ownplayersave")
        /\ ValueOf(resp, "ownplayersave").t = "list"
        /\ ValueOf(resp, "ownplayersave").d.len >= SaveMinLen)
    => result \in {"Ok", "ParsingError", "ConnectionError"}

----------------------------------------------------------------------------
(* The list fields: full, truncated and empty lists *)

ListFields ==
    { Field("smith", ListV(Dense(<<3, 1700000400>>))),
      Field("smith", ListV(Dense(<<3>>))),
      Field("gttime", ListV(Filled(4, 1700000700))),
      Field("gttime", ListV(Filled(2, 1700000700))),
      Field("dicereward", ListV(Dense(<<2, 5>>))),
      Field("dicereward", ListV(Dense(<<0, 5>>))),
      Field("dicereward", ListV(Dense(<<2>>))),
      Field("resources", ListV(Filled(17, 6))),
      Field("resources", ListV(Filled(12, 6))),
      Field("owntower", ListV(Filled(480, 1))),
      Field("owntower", ListV(Filled(460, 1))),
      Field("owntower", ListV(Filled(200, 1))),
      Field("dailytasklist", ListV(Dense(<<1, 2, 3, 4, 5>>))),
      Field("dailytasklist", StrV("")),
      Field("otherplayerunitlevel", ListV(Dense(<<4>>))),
      Field("otherplayerunitlevel", StrV("")) }

UpdateLists ==
    \E r \in ResponsesOver(ListFields, MaxFields), rcv \in ReceivedAt : Begin(r, rcv)

NextLists ==
    \/ UpdateLists
    \/ H_smith
    \/ H_gttime
    \/ H_dicereward
    \/ H_resources
    \/ H_owntower
    \/ H_dailytasklist
    \/ H_otherplayerunitlevel
    \/ Reconcile
    \/ Finish

SpecLists == InitIn({UTC}) /\ [][NextLists]_vars

\* C2: an update whose fields are integer lists of any length, empty and
\* truncated ones included, ends with Ok or a typed error: no index out of
\* range and no arithmetic underflow.
C2_ListsNeverPanic ==
    (pc = "done" /\ Len(resp) >= 1
        /\ \A i \in 1..Len(resp) : into_list(resp[i].val).ok)
    => result # "panic"

----------------------------------------------------------------------------
(* ServerTime::convert_to_local on its own *)

ConvertOffsets == {-7200, -30, 0, 30, 7200}

\* raw values, in Rel seconds: the sentinels, both ends of the window and
\* their neighbours, and times around the zones' change of offset
ConvertStamps ==
    { Rel(0), Rel(-1), Rel(11), Rel(1), Rel(EpochBase) - 1, Rel(EpochBase),
      Rel(1700000000), Rel(1700000000) + 5400, Rel(1700000000) + 9000,
      WindowEnd, WindowEnd + 1 }

\* ServerTime(off).convert_to_local(ts, _)
Convert(off, ts) ==
    /\ pc = "idle"
    /\ conv' = [called |-> TRUE, off |-> off, ts |-> ts,
                res |-> convert_to_local(off, ts)]
    /\ UNCHANGED <<gs, zone, pc, resp, received, pos, server_time, other_player,
                   other_guild, result, entry, reconciled, calls>>

NextConvert == \E off \in ConvertOffsets, ts \in ConvertStamps : Convert(off, ts)

SpecConvert == InitIn({UTC, East, Spring, Fall}) /\ [][NextConvert]_vars

InWindow(ts) ==
    /\ ts \notin {Rel(0), Rel(-1), Rel(11)}
    /\ Rel(EpochBase) <= ts /\ ts <= WindowEnd

\* the wall-clock reading of the instant e in the local zone
LocalReading(e) == e + UtcOffsetAt(zone, e)

\* C5 as stated: for v inside the window the result is the instant with
\* epoch seconds v - offset.
C5_EpochIsValueMinusOffset ==
    (conv.called /\ InWindow(conv.ts)) => conv.res = Some(conv.ts - conv.off)

\* C5: convert_to_local(v) yields no value for v in {0, -1, 11} and for v
\* outside the window; for v inside it yields the latest instant whose local
\* wall-clock reading is v - offset, and no value when the local zone has no
\* such instant.
C5_ReadingIsValueMinusOffset ==
    conv.called =>
        IF ~InWindow(conv.ts) THEN conv.res = None
        ELSE LET n == conv.ts - conv.off
                 same == { e \in {n - zone.before, n - zone.after} : LocalReading(e) = n }
             IN  /\ IsSome(conv.res) <=> same # {}
                 /\ IsSome(conv.res) =>
                       /\ LocalReading(Unwrap(conv.res)) = n
                       /\ \A e \in same : e <= Unwrap(conv.res)

\* C5 happens: a value inside the window was converted under a negative
\* offset in a zone where two instants have the reading
C5_Witness ==
    /\ conv.called /\ InWindow(conv.ts) /\ conv.off < 0
    /\ IsSome(conv.res)
    /\ LocalReading(Unwrap(conv.res) - 3600) = conv.ts - conv.off
    /\ Unwrap(conv.res) # conv.ts - conv.off

----------------------------------------------------------------------------
(* Pruning: the sub-states and their sentinels *)

PruneFields ==
    { Field("owngroupname", StrV("Bar")),
      Field("owngroupname", StrV("")),
      Field("owngrouprank", IntV(2)),
      Field("petsrank", IntV(7)),
      Field("petsrank", StrV("x")),
      Field("resources", ListV(Filled(17, 6))),
      Field("ownplayersave", ListV(Save(702, 30, 3, 1700000600))) }

UpdatePrune ==
    \E r \in ResponsesOver(PruneFields, MaxFields) : Begin(r, Rel(1700000000) + 30)

NextPrune ==
    \/ UpdatePrune
    \/ H_owngroupname
    \/ H_owngrouprank
    \/ H_petsrank
    \/ H_resources
    \/ H_ownplayersave
    \/ Reconcile
    \/ Finish

SpecPrune == InitIn({UTC}) /\ [][NextPrune]_vars

\* no prunable sub-state of g is present with its defining field at the
\* empty sentinel
NoneAtSentinel(g) ==
    /\ IsSome(g.guild) => Unwrap(g.guild).name # ""
    /\ IsSome(g.fortress) => Unwrap(g.fortress).upgrades # 0
    /\ IsSome(g.underworld) => Unwrap(g.underworld).honor # 0
    /\ IsSome(g.pets) => Unwrap(g.pets).rank # 0
    /\ IsSome(g.portal) => Unwrap(g.portal).current # 0

\* C6 as stated: at the end of every update call no prunable sub-state is
\* present at its sentinel.
C6_PrunedAfterEveryCall == pc = "done" => NoneAtSentinel(gs)

\* C6: at the end of every update call that returns Ok, guild is absent if
\* its name is empty, fortress if its upgrade count is zero, underworld if
\* its honor is zero, pets if its rank is zero and the portal if its progress
\* counter is zero.
C6_PrunedAfterOk == (pc = "done" /\ result = "Ok") => NoneAtSentinel(gs)

\* C6 happens: a guild that was present with a name when the call began is
\* absent after owngroupname reported the empty name, while the fortress,
\* not at its sentinel, stays
C6_Witness ==
    /\ pc = "done" /\ result = "Ok"
    /\ IsSome(entry.guild) /\ Unwrap(entry.guild).name = "Bar"
    /\ IsSome(entry.fortress)
    /\ HasKey(resp, "owngroupname")
    /\ gs.guild = None
    /\ IsSome(gs.fortress)

----------------------------------------------------------------------------
(* Errors: fields that fail, the session marker and unknown names *)

ErrFields ==
    { Field("timestamp", IntV(1700000000)),
      Field("ownplayername", StrV("Foo")),
      Field("owngrouprank", IntV(2)),
      Field("petsrank", StrV("x")),
      Field("cryptoid not found", StrV("")),
      Field("fightstatus", StrV("a")),
      Field("othergroupname", StrV("Og")),
      Field("owntower", ListV(Filled(460, 1))) }

UpdateErr ==
    \E r \in ResponsesOver(ErrFields, MaxErrFields) : Begin(r, Rel(1700000000) + 30)

NextErr ==
    \/ UpdateErr
    \/ H_timestamp
    \/ H_ownplayername
    \/ H_owngrouprank
    \/ H_petsrank
    \/ H_cryptoid_not_found
    \/ H_ignored
    \/ H_othergroupname
    \/ H_owntower
    \/ Reconcile
    \/ Finish

SpecErr == InitIn({UTC}) /\ [][NextErr]_vars

Components == DOMAIN DefaultGameState

\* the parts of the snapshot the field named k belongs to
Owns(k) ==
    CASE k = "timestamp" -> {"server_time_diff", "last_request_timestamp"}
      [] k = "ownplayername" -> {"name"}
      [] k \in {"owngroupname", "owngrouprank"} -> {"guild"}
      [] k = "petsrank" -> {"pets"}
      [] k = "tavernspecialend" -> {"events_ends"}
      [] k = "smith" -> {"blacksmith"}
      [] k = "fightversion" -> {"last_fight"}
      [] k = "othergroupname" -> {"other_guilds"}
      [] k = "otherplayerunitlevel" -> {"lookup"}
      [] k = "ownplayersave" -> {"level", "bag", "shops", "bard_instrument",
                                 "fortress", "guild", "pets", "portal"}
      [] k = "owntower" -> {"underworld"}
      [] k = "dicereward" -> {"dice_reward"}
      [] k = "gttime" -> {"hellevator"}
      [] k = "resources" -> {"blacksmith", "fortress", "pets", "underworld"}
      [] k = "dailytasklist" -> {"daily_tasks"}
      [] k = "Ranklistplayer" -> {"player_hall_of_fame"}
      [] k = "fortresswalllevel" -> {"fortress"}
      [] k = "singleportalenemylevel" -> {"portal"}
      [] k = "wheelresult" -> {"wheel_result"}
      [] Handler(k) \in {"winnerid", "fightheader", "fight"} -> {"last_fight"}
      [] OTHER -> {}

\* a field of the response raises a hard error in this step
ErrorStep ==
    pc = "loop" /\ pc' = "done" /\ result' \in {"ParsingError", "ConnectionError"}

\* C7: when a field raises a hard error the call ends at that field with
\* that error, without reconciliation; what the timestamp and the fields
\* before it wrote is still in the snapshot (the failing field changes at
\* most its own part), and nothing changes once the call has ended.
C7_NoRollback ==
    [][ /\ ErrorStep =>
            /\ pos' = pos /\ pos <= Len(resp)
            /\ reconciled' = FALSE
            /\ result' = IF Cur.key = "cryptoid not found"
                          THEN "ConnectionError" ELSE "ParsingError"
            /\ \A c \in Components \ Owns(Cur.key) : gs'[c] = gs[c]
            /\ HasKey(resp, "timestamp") =>
                  gs'.server_time_diff = Rel(ValueOf(resp, "timestamp").n) - received
            /\ \A i \in 1..(pos - 1) :
                  /\ resp[i].key = "ownplayername" => gs'.name = resp[i].val.s
                  /\ resp[i].key = "owngrouprank" =>
                        IsSome(gs'.guild) /\ Unwrap(gs'.guild).rank = resp[i].val.n
        /\ (pc = "done" /\ result \in {"ParsingError", "ConnectionError"}) =>
              (pc' = "idle" /\ gs' = gs) ]_vars

\* C7 happens: the second field failed after the timestamp and the first
\* field had changed the snapshot, and their changes are in it
C7_Witness ==
    /\ pc = "done" /\ result = "ParsingError" /\ pos = 2
    /\ Len(resp) = 3
    /\ resp[1].key = "owngrouprank" /\ resp[2].key = "petsrank"
    /\ resp[3].key = "timestamp"
    /\ gs.server_time_diff # entry.server_time_diff
    /\ gs.guild # entry.guild

\* C8: the field "cryptoid not found" ends the call with a ConnectionError
\* where it stands, changing nothing; the fields after it are not handled,
\* the staged entries are not committed and nothing is pruned.
C8_SessionInvalidShortCircuits ==
    [][ /\ AtField("cryptoid not found") =>
            /\ pc' = "done" /\ result' = "ConnectionError"
            /\ pos' = pos
            /\ gs' = gs
            /\ reconciled' = FALSE
        /\ (pc = "done" /\ result = "ConnectionError") =>
            /\ ~reconciled
            /\ resp[pos].key = "cryptoid not found"
            /\ pc' = "idle" /\ gs' = gs ]_vars

\* C8 happens: the call ended with a ConnectionError at the first of two
\* fields, with a guild in the snapshot that pruning would have removed
C8_Witness ==
    /\ pc = "done" /\ result = "ConnectionError"
    /\ pos = 1 /\ Len(resp) = 2
    /\ resp[2].key = "ownplayername" /\ gs.name # resp[2].val.s
    /\ IsSome(gs.guild) /\ Unwrap(gs.guild).name = ""

\* C9: a field whose name no arm but the last one matches raises no error
\* and changes neither the snapshot nor the staged entries; the loop goes on
\* to the next field, and a call that returns Ok has handled every field.
C9_UnknownFieldIgnored ==
    [][ /\ AtField("ignored") =>
            /\ gs' = gs
            /\ other_player' = other_player /\ other_guild' = other_guild
            /\ pc' = "loop" /\ result' = result
            /\ pos' = pos + 1
        /\ (pc' = "done" /\ result' = "Ok") => pos' = Len(resp') + 1 ]_vars

\* C9 happens: a call returned Ok whose first field had an unknown name and
\* whose second field was handled
C9_Witness ==
    /\ pc = "done" /\ result = "Ok"
    /\ Len(resp) = 2
    /\ Handler(resp[1].key) = "ignored" /\ resp[1].key = "fightstatus"
    /\ resp[2].key = "ownplayername" /\ gs.name = "Foo" /\ entry.name = ""

----------------------------------------------------------------------------
(* The frame: what a response leaves alone *)

FrameFields ==
    { Field("timestamp", IntV(1700000000)),
      Field("ownplayername", StrV("Foo")),
      Field("petsrank", StrV("x")),
      Field("fightversion", IntV(1)),
      Field("Ranklistplayer",
            TableV(<< <<"1", "Ann", "Bar", "50", "900", "2", "de">>,
                      <<"2", "Bob", "", "7", "x", "1">>,
                      <<"3", "Cid", "", "7", "50", "1">> >>)),
      Field("ownplayersave", ListV(Save(702, 30, 3, 1700000600))),
      Field("fortresswalllevel", IntV(3)),
      Field("singleportalenemylevel", IntV(4)) }

UpdateFrame ==
    \E r \in ResponsesOver(FrameFields, MaxFields) : Begin(r, Rel(1700000000) + 30)

NextFrame ==
    \/ UpdateFrame
    \/ H_timestamp
    \/ H_ownplayername
    \/ H_petsrank
    \/ H_fightversion
    \/ H_Ranklistplayer
    \/ H_ownplayersave
    \/ H_fortresswalllevel
    \/ H_singleportalenemylevel
    \/ Reconcile
    \/ Finish

SpecFrame == InitIn({UTC}) /\ [][NextFrame]_vars

\* the parts of the snapshot the fields of the response r belong to
OwnedBy(r) == UNION { Owns(r[i].key) : i \in 1..Len(r) }

\* the sub-states reconciliation prunes
Prunable == {"guild", "fortress", "underworld", "pets", "portal"}

----------------------------------------------------------------------------
(* Applying one response twice *)

TwiceFields ==
    { Field("timestamp", IntV(1700000000)),
      Field("ownplayername", StrV("Foo")),
      Field("petsrank", IntV(7)),
      Field("resources", ListV(Filled(17, 6))),
      Field("wheelresult", ListV(Dense(<<9, 5>>))),
      Field("wheelresult", ListV(Dense(<<4, 5>>))),
      Field("wheelresult", StrV("x")),
      Field("ownplayersave", ListV(Save(702, 95, 3, 1700000600))),
      Field("ownplayersave", ListV(Save(702, 30, 3, 1700000600))) }

\* the first call takes any response, every later one repeats it
UpdateTwice ==
    /\ calls = 0
    /\ \E r \in ResponsesOver(TwiceFields, MaxErrFields) :
          Begin(r, Rel(1700000000) + 30)

NextTwice ==
    \/ UpdateTwice
    \/ Again
    \/ H_timestamp
    \/ H_ownplayername
    \/ H_petsrank
    \/ H_resources
    \/ H_wheelresult
    \/ H_ownplayersave
    \/ Reconcile

SpecTwice == InitIn({UTC}) /\ [][NextTwice]_vars

\* C11: when update succeeds on a response and is applied to it once more,
\* the second application leaves the snapshot as the first one left it
C11_TwiceIsOnce ==
    (calls >= 2 /\ pc = "done" /\ result = "Ok") => gs = entry

----------------------------------------------------------------------------
(* The staging entries: other player and other guild *)

StageFields ==
    { Field("othergroupname", StrV("Og")),
      Field("othergrouprank", IntV(2)),
      Field("othergrouprank", StrV("x")),
      Field("otherplayername", StrV("Bob")),
      Field("otherplayer", ListV(Dense(<<5, 0, 40>>))),
      Field("otherplayer", ListV(Dense(<<5>>))),
      Field("otherplayerunitlevel", ListV(Dense(<<3>>))) }

\* longer responses about one player: the array in every place among the
\* fields that tell its name, guild, fortress rank and wall level
StagePlayerResponses ==
    LET about == << Field("otherplayername", StrV("Bob")),
                    Field("otherplayergroupname", StrV("Gd")),
                    Field("otherplayerfortressrank", IntV(9)),
                    Field("otherplayerunitlevel", ListV(Dense(<<3>>))) >>
        arrays == { Field("otherplayer", ListV(Dense(<<5, 0, 40>>))),
                    Field("otherplayer", ListV(Dense(<<5>>))) }
    IN  { SubSeq(about, 1, k) \o <<a>> \o SubSeq(about, k + 1, Len(about)) :
              k \in 0..Len(about), a \in arrays }

UpdateStage ==
    \E r \in ResponsesOver(StageFields, MaxFields) \cup StagePlayerResponses :
       Begin(r, Rel(1700000000) + 30)

NextStage ==
    \/ UpdateStage
    \/ H_othergroupname
    \/ H_othergrouprank
    \/ H_otherplayername
    \/ H_otherplayergroupname
    \/ H_otherplayerfortressrank
    \/ H_otherplayer
    \/ H_otherplayerunitlevel
    \/ Reconcile
    \/ Finish

SpecStage == InitIn({UTC}) /\ [][NextStage]_vars

\* the two lookup caches of the hall of fames
Caches(g) == <<g.other_guilds, g.lookup>>

\* C12: the lookup caches change only in the step that ends a call with Ok
\* after the last field, which puts the staged other-guild entry into the
\* guild cache under its name and commits the staged other-player entry;
\* a call that ends with an error leaves both caches as they were at entry
C12_CommitOnlyInReconciliation ==
    [][ /\ Caches(gs') # Caches(gs) =>
              /\ pc = "loop" /\ pos > Len(resp)
              /\ pc' = "done" /\ result' = "Ok"
        /\ (pc = "loop" /\ pc' = "done" /\ result' = "Ok") =>
              /\ pos > Len(resp)
              /\ IsSome(other_guild) =>
                    /\ Unwrap(other_guild) \in gs'.other_guilds
                    /\ \A e \in gs'.other_guilds :
                          e.name = Unwrap(other_guild).name => e = Unwrap(other_guild)
              /\ IsSome(other_player) =>
                    \E e \in gs'.lookup : e.player_id = Unwrap(other_player).player_id
              /\ (other_guild = None => gs'.other_guilds = gs.other_guilds)
              /\ (other_player = None => gs'.lookup = gs.lookup)
        /\ (pc' = "done" /\ result' # "Ok") => Caches(gs') = Caches(entry')
      ]_vars

\* a call has staged both entries over several fields and committed them
C12_Witness ==
    /\ pc = "done" /\ result = "Ok" /\ Len(resp) >= 2
    /\ IsSome(other_guild) /\ IsSome(other_player)
    /\ gs.other_guilds # entry.other_guilds
    /\ gs.lookup # entry.lookup
    /\ calls = 2

\* the entry of the staged player in the cache
Committed(g, op) == CHOOSE e \in g.lookup : e.player_id = op.player_id

\* C13: when a call that carries the otherplayer array commits an entry, the
\* entry has the name, the guild, the fortress rank and the wall level the
\* response tells, wherever the array stands among those fields
C13_SevenFieldsKept ==
    (pc = "done" /\ result = "Ok" /\ HasKey(resp, "otherplayer")
        /\ IsSome(other_player)) =>
       LET e == Committed(gs, Unwrap(other_player)) IN
       /\ HasKey(resp, "otherplayername") =>
             e.name = as_str(ValueOf(resp, "otherplayername"))
       /\ HasKey(resp, "otherplayergroupname") =>
             e.guild = Some(as_str(ValueOf(resp, "otherplayergroupname")))
       /\ HasKey(resp, "otherplayerfortressrank") =>
             e.fortress_rank = Some(ValueOf(resp, "otherplayerfortressrank").n)
       /\ HasKey(resp, "otherplayerunitlevel") =>
             e.wall_combat_lvl = At(ValueOf(resp, "otherplayerunitlevel").d, 0)

\* the otherplayer array at position i of the response is a list that does
\* not decode
FailedArrayAt(i) ==
    /\ pc \in {"loop", "done"} /\ i \in 1..Len(resp)
    /\ resp[i].key = "otherplayer"
    /\ into_list(resp[i].val).ok
    /\ ~OtherPlayer_parse(Unwrap(into_list(resp[i].val).v)).ok
\* a field named k stands after position i of the response
Later(i, k) == \E j \in (i + 1)..Len(resp) : resp[j].key = k
\* the entry that the other-player fields after position i stage
StagedAfter(i) ==
    IF ~\E k \in {"otherplayername", "otherplayergroupname",
                  "otherplayerfortressrank", "otherplayerunitlevel"} : Later(i, k)
    THEN None
    ELSE Some(
      [DefaultOtherPlayer EXCEPT
         !.name = IF Later(i, "otherplayername")
                  THEN ValueOf(resp, "otherplayername").s ELSE @,
         !.guild = IF Later(i, "otherplayergroupname")
                   THEN Some(ValueOf(resp, "otherplayergroupname").s) ELSE @,
         !.fortress_rank = IF Later(i, "otherplayerfortressrank")
                           THEN Some(ValueOf(resp, "otherplayerfortressrank").n) ELSE @,
         !.wall_combat_lvl = IF Later(i, "otherplayerunitlevel")
                             THEN At(ValueOf(resp, "otherplayerunitlevel").d, 0) ELSE @])

\* C29: an otherplayer array that is a list but does not decode does not end
\* the update: the loop goes on with the next field, the entry staged by the
\* earlier fields of the response is dropped, and reconciliation commits
\* only what the other-player fields after the array have staged, if any
C29_FailedArrayDropsStaged ==
    \A i \in 1..Len(resp) :
        FailedArrayAt(i) =>
            /\ pc = "done" => pos # i
            /\ (pc = "done" /\ result = "Ok") =>
                  /\ other_player = StagedAfter(i)
                  /\ gs.lookup = IF StagedAfter(i) = None THEN entry.lookup
                                  ELSE insert_lookup(entry.lookup, Unwrap(StagedAfter(i)))

\* a name and a guild were staged, the array failed, and the entry that was
\* committed has the fortress rank and the wall level told after the array
\* and neither name nor guild
C29_Witness ==
    /\ FailedArrayAt(3) /\ pc = "done" /\ result = "Ok"
    /\ resp[1].key = "otherplayername" /\ resp[2].key = "otherplayergroupname"
    /\ gs.lookup = {[DefaultOtherPlayer EXCEPT !.fortress_rank = Some(9),
                                               !.wall_combat_lvl = 3]}

----------------------------------------------------------------------------
(* The decoders of enumerated codes on their own *)

\* the greatest code and the greatest length of an array the decoders get
CodeMax == 93
DataMax == 3
Codes == (-1)..CodeMax
Amounts == {-1, 0, 1, 2, 50}
CodeArrays ==
    { Dense(<<>>) } \cup { Dense(<<c>>) : c \in Codes }
    \cup { Dense(<<c, a>> \o [i \in 1..n |-> 0]) :
               c \in Codes, a \in Amounts, n \in 0..(DataMax - 2) }

\* one call of a decoder: what it was given and what it returned
Decoded(fn, data, upgraded, res) ==
    /\ ~conv.called
    /\ conv' = [called |-> TRUE, fn |-> fn, data |-> data, upgraded |-> upgraded,
                res |-> res]

DecodeWheel ==
    /\ \E data \in CodeArrays, upgraded \in BOOLEAN :
          Decoded("WheelReward", data, upgraded, WheelReward_parse(data, upgraded))
    /\ UNCHANGED <<gs, zone, pc, resp, received, pos, server_time, other_player,
                   other_guild, result, entry, reconciled, calls>>
DecodeCalendar ==
    /\ \E data \in CodeArrays :
          Decoded("CalendarReward", data, FALSE, CalendarReward_parse(data))
    /\ UNCHANGED <<gs, zone, pc, resp, received, pos, server_time, other_player,
                   other_guild, result, entry, reconciled, calls>>
DecodeReward ==
    /\ \E data \in CodeArrays :
          Decoded("Reward", data, FALSE, Reward_parse(data))
    /\ UNCHANGED <<gs, zone, pc, resp, received, pos, server_time, other_player,
                   other_guild, result, entry, reconciled, calls>>
DecodeEventTask ==
    /\ \E c \in Codes :
          Decoded("EventTaskTyp", Dense(<<c>>), FALSE, Ok([typ |-> EventTaskTyp_parse(c)]))
    /\ UNCHANGED <<gs, zone, pc, resp, received, pos, server_time, other_player,
                   other_guild, result, entry, reconciled, calls>>
DecodeDailyTask ==
    /\ \E c \in Codes :
          Decoded("DailyTaskType", Dense(<<c>>), FALSE, Ok([typ |-> DailyTaskType_parse(c)]))
    /\ UNCHANGED <<gs, zone, pc, resp, received, pos, server_time, other_player,
                   other_guild, result, entry, reconciled, calls>>

NextCodes ==
    \/ DecodeWheel
    \/ DecodeCalendar
    \/ DecodeReward
    \/ DecodeEventTask
    \/ DecodeDailyTask

SpecCodes == InitIn({UTC}) /\ [][NextCodes]_vars

\* C14: given at least two integers, the calendar, reward and wheel decoders
\* return Ok in both wheel contexts, whatever the codes are; the two
\* task-type decoders return a variant for every code
C14_UnknownCodesNeverFail ==
    conv.called =>
       /\ (conv.fn \in {"WheelReward", "CalendarReward", "Reward"}
              /\ conv.data.len >= 2) => conv.res.ok
       /\ conv.fn \in {"EventTaskTyp", "DailyTaskType"} =>
              /\ conv.res.ok
              /\ Unwrap(conv.res.v).typ[1] \in
                     {"EventTaskTyp", "DailyTaskType", "TravelTo", "Unknown"}

\* C15: the wheel decoder reads code 9 as Silver, or Souls when upgraded;
\* code 1 as Wood, or Arcane when upgraded; code 3 as Stone, or when upgraded
\* as the pet item the amount names, with the amount reported as 1; and the
\* codes 0, 2, 4, 5, 6, 7, 8 alike in both contexts
C15_WheelMapping ==
    (conv.called /\ conv.fn = "WheelReward" /\ conv.data.len >= 2) =>
       LET code == At(conv.data, 0)
           amount == At(conv.data, 1)
           up == conv.upgraded
       IN  /\ (code = 3 /\ up /\ IsSome(PetItem_parse(amount))) => conv.res.ok
           /\ (code # 3 \/ ~up) => conv.res.ok
           /\ conv.res.ok =>
                 LET w == Unwrap(conv.res.v) IN
                 /\ code = 9 => w.typ = (IF up THEN "Souls" ELSE "Silver")
                                 /\ w.amount = amount
                 /\ code = 1 => w.typ = (IF up THEN "Arcane" ELSE "Wood")
                                 /\ w.amount = amount
                 /\ (code = 3 /\ ~up) => w.typ = "Stone" /\ w.amount = amount
                 /\ (code = 3 /\ up) => /\ w.typ = "PetItem"
                                         /\ w.pet_item = PetItem_parse(amount)
                                         /\ w.amount = 1
                 /\ code \in {0, 2, 4, 5, 6, 7, 8} =>
                       /\ conv.res = WheelReward_parse(conv.data, ~up)
                       /\ w.typ \notin {"Unknown", "PetItem"}

\* the upgraded wheel has given a pet item
C15_Witness ==
    /\ conv.called /\ conv.fn = "WheelReward" /\ conv.upgraded
    /\ At(conv.data, 0) = 3 /\ At(conv.data, 1) = 2
    /\ conv.res.ok
    /\ Unwrap(conv.res.v) = [typ |-> "PetItem", pet_item |-> Some(2), amount |-> 1]

----------------------------------------------------------------------------
(* The shops of the account save *)

GoodSave == Save(702, 30, 3, 1700000600)

ShopFields ==
    { Field("ownplayersave", ListV(GoodSave)),
      Field("ownplayersave", ListV(Override(GoodSave, 288, 7))),
      Field("ownplayersave", ListV(Override(GoodSave, 288 + 2 * 12, 0))),
      Field("ownplayersave", ListV(Override(GoodSave, 361 + 5 * 12, 0))),
      Field("ownplayername", StrV("Foo")) }

UpdateShop ==
    \E r \in ResponsesOver(ShopFields, MaxFields) : Begin(r, Rel(1700000000) + 30)

NextShop ==
    \/ UpdateShop
    \/ H_ownplayersave
    \/ H_ownplayername
    \/ Reconcile
    \/ Finish

SpecShop == InitIn({UTC}) /\ [][NextShop]_vars

\* the six records of the window at base are there and each is an item
WellFormed(data, base) ==
    \A i \in 0..(SHOP_N - 1) :
       /\ base + 12 * i + 12 <= data.len
       /\ At(data, base + 12 * i) # 0
\* the items of the six records of the window at base
ItemsOf(data, base) == [i \in 1..SHOP_N |-> At(data, base + 12 * (i - 1))]

\* C16: the step that decodes the account save stores in each shop exactly
\* the six items of its window, item i from the integers at 12 * i, when
\* the six records are items; when one is not, the call ends with
\* ParsingError and that shop is as it was before, never a part of a shop
C16_ShopWholeOrUntouched ==
    [][ (AtField("ownplayersave") /\ Cur.val.t = "list"
           /\ Cur.val.d.len >= SaveMinLen) =>
          LET data == Cur.val.d IN
          /\ WellFormed(data, 288) => gs'.shops.weapon = ItemsOf(data, 288)
          /\ (WellFormed(data, 288) /\ WellFormed(data, 361)) =>
                gs'.shops.magic = ItemsOf(data, 361)
          /\ ~WellFormed(data, 288) =>
                /\ pc' = "done" /\ result' = "ParsingError"
                /\ gs'.shops = gs.shops
          /\ ~WellFormed(data, 361) =>
                /\ pc' = "done" /\ result' = "ParsingError"
                /\ gs'.shops.magic = gs.shops.magic
      ]_vars

\* a save with a record that is no item has met a shop filled by an
\* earlier call, and the shop is still as that call left it
C16_Witness ==
    /\ pc = "done" /\ result = "ParsingError" /\ calls = 2
    /\ resp[pos].key = "ownplayersave"
    /\ ~WellFormed(resp[pos].val.d, 288)
    /\ gs.shops.weapon = ItemsOf(Override(GoodSave, 288, 7), 288)
    /\ gs.shops.weapon # DefaultShop

----------------------------------------------------------------------------
(* The hall of fame of the players *)

\* the most records a table of the model has
MaxRows == 2

HofRecords ==
    { <<"1", "Ann", "Bar", "50", "900", "2", "de">>,
      <<"3", "Cid", "", "7", "50", "1">>,
      <<"2", "Bob", "", "7", "x", "1">>,
      <<"2", "Bob", "", "7", "50">>,
      <<"2", "Dan", "", "7", "50", "50">>,
      <<"2", "Eve", "", "7", "50", "-9223372036854775808">> }

HofFields ==
    { Field("Ranklistplayer", TableV(rows)) :
         rows \in UNION { [1..n -> HofRecords] : n \in 0..MaxRows } }
    \cup { Field("ownplayername", StrV("Foo")) }

UpdateHof ==
    \E r \in ResponsesOver(HofFields, MaxFields) : Begin(r, Rel(1700000000) + 30)

NextHof ==
    \/ UpdateHof
    \/ H_Ranklistplayer
    \/ H_ownplayername
    \/ Reconcile
    \/ Finish

SpecHof == InitIn({UTC}) /\ [][NextHof]_vars

\* the record has the fields of a player (six, or seven with the flag) and
\* its rank, level, fame and class are numbers, the class that of a Class
HofRecordOk(data) ==
    /\ Len(data) \in {6, 7}
    /\ \A i \in {1, 4, 5, 6} : data[i] \in DOMAIN Numerals
    /\ Numerals[data[6]] \in 1..Classes

\* C17: the step that handles the players' table goes on with the loop and
\* leaves in the table one entry for each record of the input that has the
\* expected fields, in the order of the input, and none for any other
C17_TableKeepsGoodRecords ==
    [][ AtField("Ranklistplayer") =>
          LET good == SelectSeq(Cur.val.rows, HofRecordOk) IN
          /\ pc' = "loop"
          /\ Len(gs'.player_hall_of_fame) = Len(good)
          /\ \A i \in 1..Len(good) :
                /\ gs'.player_hall_of_fame[i].name = good[i][2]
                /\ gs'.player_hall_of_fame[i].rank = Numerals[good[i][1]]
      ]_vars

----------------------------------------------------------------------------
(* The fights of last_fight *)

FightFields ==
    { Field("winnerid", IntV(7)),
      Field("winnerid2", IntV(7)),
      Field("winnerid0", IntV(7)),
      Field("winnerid1", StrV("x")),
      Field("fightheader", StrV("a/b")),
      Field("fightheader3", StrV("a/b")),
      Field("fight", StrV("r")),
      Field("fight2", StrV("r")),
      Field("fight0", StrV("r")),
      Field("fight1x", StrV("r")),
      Field("fightversion", IntV(1)) }

UpdateFight ==
    \E r \in ResponsesOver(FightFields, MaxFields) : Begin(r, Rel(1700000000) + 30)

NextFight ==
    \/ UpdateFight
    \/ H_winnerid
    \/ H_fightheader
    \/ H_fight
    \/ H_fightversion
    \/ Reconcile
    \/ Finish

SpecFight == InitIn({UTC}) /\ [][NextFight]_vars

\* the fights of a snapshot, none when there is no last_fight
FightsOf(g) == IF IsSome(g.last_fight) THEN Unwrap(g.last_fight).fights ELSE <<>>

\* C18: a field routed to get_fight whose value converts is handled without
\* a panic; after it last_fight is there with at least N fights, N the
\* number its name carries (1 without digits), the fights from before are
\* kept but for the one written, and fight N holds the value
C18_FightRouted ==
    [][ (pc = "loop" /\ pos <= Len(resp)
           /\ Handler(Cur.key) \in {"winnerid", "fightheader", "fight"}
           /\ (Handler(Cur.key) = "winnerid" => into(Cur.val).ok)) =>
          LET N == fight_id(Cur.key) IN
          /\ pc' = "loop"
          /\ IsSome(gs'.last_fight)
          /\ Len(FightsOf(gs')) >= N
          /\ Len(FightsOf(gs')) >= Len(FightsOf(gs))
          /\ \A i \in 1..Len(FightsOf(gs)) : i # N => FightsOf(gs')[i] = FightsOf(gs)[i]
          /\ N >= 1
          /\ CASE Handler(Cur.key) = "winnerid" -> FightsOf(gs')[N].winner_id = Cur.val.n
                [] Handler(Cur.key) = "fightheader" -> FightsOf(gs')[N].fighters = Cur.val.s
                [] OTHER -> FightsOf(gs')[N].rounds = Cur.val.s
      ]_vars

----------------------------------------------------------------------------
(* The order of the fields *)

OrderFields ==
    { Field("timestamp", IntV(1700000000)),
      Field("tavernspecialend", IntV(1700000500)),
      Field("winnerid", IntV(7)),
      Field("winnerid1", IntV(8)),
      Field("fight", StrV("r")),
      Field("fight1x", StrV("s")),
      Field("petsrank", StrV("x")) }

UpdateOrder ==
    \E r \in ResponsesOver(OrderFields, MaxFields) : Begin(r, Rel(1700000000) + 30)

NextOrder ==
    \/ UpdateOrder
    \/ H_timestamp
    \/ H_tavernspecialend
    \/ H_winnerid
    \/ H_fight
    \/ H_petsrank
    \/ Reconcile
    \/ Finish

SpecOrder == InitIn({UTC}) /\ [][NextOrder]_vars

\* the place of the last field of r that arm h routes to fight 1, 0 if none
LastToFight1(r, h) ==
    LET S == {i \in 1..Len(r) : Handler(r[i].key) = h /\ fight_id(r[i].key) = 1} IN
    IF S = {} THEN 0 ELSE CHOOSE i \in S : \A j \in S : j <= i

\* C19 as stated: every field takes effect at its place in the supplied
\* order, so a time supplied before the timestamp is converted with the
\* offset the snapshot had when the call began
C19_SuppliedOrder ==
    (pc = "done" /\ result = "Ok" /\ Len(resp) = 2
        /\ resp[1].key = "tavernspecialend" /\ resp[2].key = "timestamp") =>
       gs.events_ends = convert_to_local(entry.server_time_diff, Rel(resp[1].val.n))

\* C19, amended: the timestamp takes effect before the loop, wherever it
\* stands; the loop then visits the fields one by one in the supplied
\* order, each step writing only what its field owns and the timestamp's
\* step nothing, up to the first error or past the last field; so of two
\* fields that write the same fight the later supplied one decides
C19_InOrderClockFirst ==
    [][ /\ (pc = "loop" /\ pos <= Len(resp)) =>
              /\ \/ pc' = "loop" /\ pos' = pos + 1
                 \/ pc' = "done" /\ pos' = pos /\ result' # "Ok"
              /\ \A c \in Components :
                    gs'[c] # gs[c] => (c \in Owns(Cur.key) /\ Cur.key # "timestamp")
        /\ (pc' = "done" /\ result' = "Ok") => (pc = "loop" /\ pos = Len(resp) + 1)
        /\ (gs'.server_time_diff # gs.server_time_diff
              \/ gs'.last_request_timestamp # gs.last_request_timestamp) =>
              (pc = "idle" /\ HasKey(resp', "timestamp"))
        /\ (pc' = "done" /\ result' = "Ok") =>
              /\ LastToFight1(resp, "winnerid") # 0 =>
                    FightsOf(gs')[1].winner_id = resp[LastToFight1(resp, "winnerid")].val.n
              /\ LastToFight1(resp, "fight") # 0 =>
                    FightsOf(gs')[1].rounds = resp[LastToFight1(resp, "fight")].val.s
      ]_vars

\* two fields have written the winner of fight 1 and the later one stands
C19_Witness ==
    /\ pc = "done" /\ result = "Ok" /\ Len(resp) = 2
    /\ resp[1].key = "winnerid1" /\ resp[2].key = "winnerid"
    /\ FightsOf(gs)[1].winner_id = 7

----------------------------------------------------------------------------
(* The scenario of four fields *)

ScenarioFields ==
    { Field("timestamp", IntV(1700000000)),
      Field("ownplayername", StrV("Foo")),
      Field("owngroupname", StrV("Bar")),
      Field("owngrouprank", IntV(2)) }

\* the four fields in every order
ScenarioResponses ==
    { r \in [1..Cardinality(ScenarioFields) -> ScenarioFields] : DistinctKeys(r) }

UpdateScenario ==
    \E r \in ScenarioResponses, rcv \in ReceivedAt : Begin(r, rcv)

NextScenario ==
    \/ UpdateScenario
    \/ H_timestamp
    \/ H_ownplayername
    \/ H_owngroupname
    \/ H_owngrouprank
    \/ Reconcile
    \/ Finish

SpecScenario == InitIn({UTC, East}) /\ [][NextScenario]_vars

\* C20: update of the default snapshot with timestamp 1700000000,
\* ownplayername "Foo", owngroupname "Bar" and owngrouprank 2, in any order,
\* ends with Ok, the name "Foo" and the guild "Bar" of rank 2
C20_Scenario ==
    (pc = "done" /\ entry = DefaultGameState) =>
       /\ result = "Ok"
       /\ gs.name = "Foo"
       /\ gs.guild = Some([name |-> "Bar", rank |-> 2])
       /\ gs.last_request_timestamp = Rel(1700000000)

\* the call on the default snapshot has ended, with the rank supplied
\* before the name of the guild and the timestamp last
C20_Witness ==
    /\ pc = "done" /\ result = "Ok" /\ entry = DefaultGameState
    /\ resp[1].key = "owngrouprank" /\ resp[2].key = "owngroupname"
    /\ resp[4].key = "timestamp"
    /\ gs.guild = Some([name |-> "Bar", rank |-> 2])

----------------------------------------------------------------------------
(* The building prices of the underworld *)

\* the longest price list has one integer more than the buildings need
PricesMaxLen == 3 * UnderworldBuildings + 1
\* the price list of n integers 1, 2, ..., n
Prices(n) == Sparse(n, [i \in 0..(n - 1) |-> i + 1])

PriceFields ==
    { Field("underworldprice", ListV(Prices(n))) : n \in 0..PricesMaxLen }
    \cup { Field("underworldprice", StrV("x")), Field("ownplayername", StrV("Foo")) }

UpdatePrice ==
    \E r \in ResponsesOver(PriceFields, MaxFields) : Begin(r, Rel(1700000000) + 30)

NextPrice ==
    \/ UpdatePrice
    \/ H_underworldprice
    \/ H_ownplayername
    \/ Reconcile
    \/ Finish

SpecPrice == InitIn({UTC}) /\ [][NextPrice]_vars

\* the price list of the response whose call has ended at underworldprice
PriceList == resp[pos].val.d
EndedAtPrices ==
    /\ pc = "done" /\ ~reconciled /\ pos \in 1..Len(resp)
    /\ resp[pos].key = "underworldprice" /\ resp[pos].val.t = "list"

\* C21: a price list shorter than 3 integers per building type, also one
\* whose length is a multiple of 3, ends the call in a ParsingError (never in
\* an index out of range), and the costs of the buildings before the failing
\* one have their new values
C21_ShortPricesParsingError ==
    (EndedAtPrices /\ PriceList.len < 3 * UnderworldBuildings) =>
        /\ result = "ParsingError"
        /\ \A b \in 0..(UnderworldBuildings - 1) :
              3 * b + 3 <= PriceList.len =>
                 Unwrap(gs.underworld).upgrade_cost[b] =
                    [time |-> 3 * b + 1, silver |-> 3 * b + 2, souls |-> 3 * b + 3]

\* the same for the lengths that are no multiple of 3
C21_ShortPricesNotMultiple ==
    (EndedAtPrices /\ PriceList.len < 3 * UnderworldBuildings
       /\ PriceList.len % 3 # 0) =>
        /\ result = "ParsingError"
        /\ \A b \in 0..(UnderworldBuildings - 1) :
              3 * b + 3 <= PriceList.len =>
                 Unwrap(gs.underworld).upgrade_cost[b] =
                    [time |-> 3 * b + 1, silver |-> 3 * b + 2, souls |-> 3 * b + 3]

----------------------------------------------------------------------------
(* The reward chests of the daily tasks *)

\* the longest input of RewardChest::parse
ChestMaxLen == 7
\* 1: an opened chest, no reward type; 2: a reward type; -1: no amount
ChestValues == {-1, 1, 2}
ChestArrays == UNION { { Dense(q) : q \in [1..n -> ChestValues] } : n \in 0..ChestMaxLen }

DecodeChest ==
    /\ \E data \in ChestArrays :
          Decoded("RewardChest", data, FALSE, RewardChest_parse(data))
    /\ UNCHANGED <<gs, zone, pc, resp, received, pos, server_time, other_player,
                   other_guild, result, entry, reconciled, calls>>

NextChest == DecodeChest

SpecChest == InitIn({UTC}) /\ [][NextChest]_vars

\* the reward that the integers typ and amount stand for
RewardOf(typ, amount) ==
    [typ |-> IF typ \in RewardTypCodes THEN <<"RewardTyp", typ>> ELSE <<"Unknown">>,
     amount |-> IF amount >= 0 THEN amount ELSE 0]
ChestDecoded == conv.called /\ conv.fn = "RewardChest"
\* the chest holds the reward at offset 3 and, if two, the one at offset 5
ChestHolds(two) ==
    /\ conv.res.ok
    /\ LET chest == Unwrap(conv.res.v) IN
       /\ chest.opened = (At(conv.data, 0) = 1)
       /\ chest.reward[1] = Some(RewardOf(At(conv.data, 3), At(conv.data, 4)))
       /\ chest.reward[2] = IF two
                            THEN Some(RewardOf(At(conv.data, 5), At(conv.data, 6)))
                            ELSE None

\* C22 as stated: RewardChest::parse gives one reward (offset 3) and an empty
\* second slot for exactly 5 integers, two rewards (offsets 3 and 5) for every
\* longer input, and opened is true exactly when the first integer is 1
C22_ChestTwoIfLonger ==
    ChestDecoded =>
        /\ conv.data.len = 5 => ChestHolds(FALSE)
        /\ conv.data.len > 5 => ChestHolds(TRUE)

\* C22, amended: one reward for exactly 5 integers, two rewards for 7 or
\* more, a ParsingError for exactly 6 (the second reward has no amount), and
\* opened is true exactly when the first integer is 1
C22_ChestLayouts ==
    ChestDecoded =>
        /\ conv.data.len = 5 => ChestHolds(FALSE)
        /\ conv.data.len >= 7 => ChestHolds(TRUE)
        /\ conv.data.len = 6 => conv.res = Err("ParsingError")

\* an opened chest of two rewards, the second of an unknown type
C22_Witness ==
    /\ ChestDecoded /\ conv.data.len = 7 /\ conv.res.ok
    /\ Unwrap(conv.res.v).opened
    /\ Unwrap(conv.res.v).reward[1] = Some([typ |-> <<"RewardTyp", 2>>, amount |-> 0])
    /\ Unwrap(conv.res.v).reward[2] = Some([typ |-> <<"Unknown">>, amount |-> 2])

----------------------------------------------------------------------------
(* The task lists *)

\* the type codes of the tasks the responses carry
TaskCodes == {24, 25, 45, 46, 59}

TaskFields ==
    { Field("dailytasklist", ListV(Dense(<<1, c, 2, 5, 1>>))) : c \in TaskCodes }
    \cup { Field("dailytasklist", ListV(Dense(<<1>>))),
           Field("dailytasklist", ListV(Dense(<<1, 25, 2, 5, 1, 46, -1, -1, 3>>))),
           Field("dailytasklist", ListV(Dense(<<1, 30, 2, 5, 1, 46, 1>>))),
           Field("dailytasklist", StrV("")),
           Field("eventtasklist", ListV(Dense(<<12, 1, 2, 3>>))),
           Field("eventtasklist", ListV(Dense(<<13, 1, 2, 3, 48, -1, -1, 4, 9>>))),
           Field("eventtasklist", StrV("")),
           Field("eventtasklist", StrV("x")) }

UpdateTasks ==
    \E r \in ResponsesOver(TaskFields, MaxFields) : Begin(r, Rel(1700000000) + 30)

NextTasks ==
    \/ UpdateTasks
    \/ H_dailytasklist
    \/ H_eventtasklist
    \/ Reconcile
    \/ Finish

SpecTasks == InitIn({UTC}) /\ [][NextTasks]_vars

\* the daily type codes that name a task other than a journey
DailyCodes == 1..24 \cup 46..58 \cup {77, 92}
\* the record (type code, current, target, points) at off, as a task;
\* missing is what a target that does not fit is read as
TaskOf(data, off, typ, missing) ==
    [typ |-> typ,
     current |-> IF At(data, off + 1) >= 0 THEN At(data, off + 1) ELSE 0,
     target |-> IF At(data, off + 2) >= 0 THEN At(data, off + 2) ELSE missing,
     point_reward |-> IF At(data, off + 3) >= 0 THEN At(data, off + 3) ELSE 0]
DailyTypOf(code) ==
    CASE code \in 25..45 -> <<"TravelTo", code - 24>>
      [] code \in DailyCodes -> <<"DailyTaskType", code>>
      [] OTHER -> <<"Unknown">>
EventTypOf(code) ==
    IF code \in EventTaskCodes THEN <<"EventTaskTyp", code>> ELSE <<"Unknown">>
\* the field being processed carries a list of integers
AtList(k) == AtField(k) /\ into_list(Cur.val).ok
ListOf == Unwrap(into_list(Cur.val).v)
DailyReplaced ==
    /\ pc' = "loop"
    /\ gs'.daily_tasks =
          [c \in 1..((ListOf.len - 1) \div 4) |->
              TaskOf(ListOf, 4 * c - 3, DailyTypOf(At(ListOf, 4 * c - 3)), 999)]
EventReplaced ==
    /\ pc' = "loop"
    /\ gs'.event_tasks =
          [c \in 1..(ListOf.len \div 4) |->
              TaskOf(ListOf, 4 * c - 4, EventTypOf(At(ListOf, 4 * c - 4)), U64Max)]

\* C23: processing dailytasklist or eventtasklist replaces the task list by
\* one task per complete 4-integer record, in input order (the daily list
\* without its first integer); daily codes 25..45 are TravelTo(code - 24),
\* unmapped codes are Unknown
C23_TaskListsReplaced ==
    [][ /\ AtList("dailytasklist") => DailyReplaced
        /\ AtList("eventtasklist") => EventReplaced ]_vars

\* the same for the daily lists that have a first integer
C23_NonEmptyTaskListsReplaced ==
    [][ /\ (AtList("dailytasklist") /\ ListOf.len >= 1) => DailyReplaced
        /\ AtList("eventtasklist") => EventReplaced ]_vars

----------------------------------------------------------------------------
(* The level and the arena counter packed in one integer of the save *)

\* the low limbs reach into the blocks of 2^16 numbered 0..PackedBlocks
PackedBlocks == 1
\* the high limbs and the low limbs of the integers decoded
PackedHi == {-65536, -256, -1, 0, 1, 255, 256, 65536, 1048576}
PackedLo == { k * 65536 + l : k \in 0..PackedBlocks \cup {255}, l \in {0, 1, 30, 65535} }

\* mod.rs:1315-1317 on the integer v
DecodeLevel ==
    /\ \E hi \in PackedHi, lo \in PackedLo :
          LET v == [hi |-> hi, lo |-> lo] IN
          Decoded("level", v, FALSE,
                  [level |-> save_level(v), fights_for_xp |-> save_fights_for_xp(v)])
    /\ UNCHANGED <<gs, zone, pc, resp, received, pos, server_time, other_player,
                   other_guild, result, entry, reconciled, calls>>

NextLevel == DecodeLevel

SpecLevel == InitIn({UTC}) /\ [][NextLevel]_vars

\* C24: for every integer v at offset 7 of the account save, negative or
\* above 2^32, the level is the low 16 bits of v (v = q * 2^16 + level with
\* 0 <= level < 2^16) and the arena counter is q = v >> 16 if q fits its
\* type, else 0
C24_LevelAndCounter ==
    (conv.called /\ conv.fn = "level") =>
        LET v == conv.data
            level == conv.res.level
            q == v.hi * 256 + (v.lo - level) \div 65536
        IN  /\ level \in 0..65535
            /\ (v.lo - level) % 65536 = 0
            /\ conv.res.fights_for_xp = IF q \in 0..U8Max THEN q ELSE 0

\* a negative integer whose low 16 bits are 30, and 2^32 + 2^16 + 30
C24_Witness ==
    /\ conv.called /\ conv.fn = "level"
    /\ conv.data \in { [hi |-> -1, lo |-> 255 * 65536 + 30],
                       [hi |-> 256, lo |-> 65536 + 30] }
    /\ conv.res = [level |-> 30, fights_for_xp |-> 0]

----------------------------------------------------------------------------
(* A timestamp that cannot be read *)

StampFields ==
    { Field("timestamp", IntV(1700000000)),
      Field("timestamp", IntV(1700000900)),
      Field("timestamp", StrV("x")),
      Field("timestamp", BigV),
      Field("fightversion", IntV(2)),
      Field("ownplayername", StrV("Foo")) }

UpdateStamp ==
    \E r \in ResponsesOver(StampFields, MaxFields) : Begin(r, Rel(1700000000) + 30)

NextStamp ==
    \/ UpdateStamp
    \/ H_timestamp
    \/ H_fightversion
    \/ H_ownplayername
    \/ Reconcile
    \/ Finish

SpecStamp == InitIn({UTC}) /\ [][NextStamp]_vars

\* the response of the running or last call has a timestamp that is no
\* integer, or an integer that is no date
BadStamp ==
    /\ pc # "idle" /\ HasKey(resp, "timestamp")
    /\ ValueOf(resp, "timestamp").t \in {"str", "big"}

\* C25: a response whose timestamp cannot be parsed into a server epoch
\* makes update return a ParsingError before it has changed anything: no
\* field is processed and the snapshot, with the clock offset, the last
\* request timestamp and last_fight, is as it was before the call
C25_BadStampChangesNothing ==
    BadStamp => /\ pc = "done" /\ result = "ParsingError"
                /\ pos = 0 /\ ~reconciled
                /\ gs = entry

\* the call with the bad timestamp found an offset, a request timestamp and
\* a fight from an earlier call, and left them
C25_Witness ==
    /\ BadStamp /\ result = "ParsingError"
    /\ gs.server_time_diff = -30
    /\ gs.last_request_timestamp = Rel(1700000000)
    /\ IsSome(gs.last_fight)

----------------------------------------------------------------------------
(* The context of the wheel *)

WheelFields ==
    { Field("wheelresult", ListV(Dense(<<9, 5>>))),
      Field("resources", ListV(Filled(17, 6))),
      Field("petsrank", IntV(7)),
      Field("ownplayersave", ListV(Save(702, 95, 3, 1700000600))),
      Field("ownplayersave", ListV(Save(702, 30, 3, 1700000600))) }

UpdateWheel ==
    \E r \in ResponsesOver(WheelFields, MaxFields) : Begin(r, Rel(1700000000) + 30)

NextWheel ==
    \/ UpdateWheel
    \/ H_wheelresult
    \/ H_resources
    \/ H_petsrank
    \/ H_ownplayersave
    \/ Reconcile
    \/ Finish

SpecWheel == InitIn({UTC}) /\ [][NextWheel]_vars

\* a field named k stands before position i of the response
Earlier(i, k) == \E j \in 1..(i - 1) : resp[j].key = k
\* the level when the field at i is reached: that of the account save
\* before i, if there is one, else the level the call found
LevelBefore(i) ==
    IF Earlier(i, "ownplayersave")
    THEN At(ValueOf(resp, "ownplayersave").d, 7)
    ELSE entry.level
PetsBefore(i) ==
    \/ IsSome(entry.pets)
    \/ \E k \in {"resources", "petsrank", "ownplayersave"} : Earlier(i, k)
UnderworldBefore(i) == IsSome(entry.underworld) \/ Earlier(i, "resources")
\* the wheelresult field at position i has been processed in this call
WheelDoneAt(i) ==
    /\ pc \in {"loop", "done"} /\ i \in 1..Len(resp) /\ i < pos
    /\ resp[i].key = "wheelresult"

\* C26: the context that decodes wheelresult is (level >= 95, pets present,
\* underworld present) on the snapshot as it is when the field is reached:
\* sub-states and levels written by earlier fields of the response count,
\* also when the sub-state is pruned at the end of the call, and those
\* written by later fields do not
C26_WheelContextAtField ==
    \A i \in 1..Len(resp) :
        WheelDoneAt(i) =>
            /\ IsSome(gs.wheel_result)
            /\ Unwrap(gs.wheel_result).typ =
                  IF LevelBefore(i) >= 95 /\ PetsBefore(i) /\ UnderworldBefore(i)
                  THEN "Souls" ELSE "Silver"

\* the wheel was decoded as upgraded because of an underworld and pets that
\* an earlier field of the response had made and that the end of the call
\* has pruned
C26_Witness ==
    /\ WheelDoneAt(2) /\ resp[1].key = "resources"
    /\ pc = "done" /\ result = "Ok" /\ reconciled
    /\ entry.underworld = None /\ entry.pets = None /\ entry.level = 95
    /\ gs.underworld = None /\ gs.pets = None
    /\ Unwrap(gs.wheel_result).typ = "Souls"

----------------------------------------------------------------------------
(* What a pruned sub-state leaves behind *)

DiscardFields ==
    { Field("petsrank", IntV(7)),
      Field("maxpetlevel", IntV(100)),
      Field("owngroupname", StrV("Bar")),
      Field("owngrouprank", IntV(2)),
      Field("resources", ListV(Filled(17, 6))),
      Field("ownplayersave", ListV(Save(702, 30, 3, 1700000600))) }

UpdateDiscard ==
    \E r \in ResponsesOver(DiscardFields, MaxFields) : Begin(r, Rel(1700000000) + 30)

NextDiscard ==
    \/ UpdateDiscard
    \/ H_petsrank
    \/ H_maxpetlevel
    \/ H_owngroupname
    \/ H_owngrouprank
    \/ H_resources
    \/ H_ownplayersave
    \/ Reconcile
    \/ Finish

SpecDiscard == InitIn({UTC}) /\ [][NextDiscard]_vars

\* the default of the sub-state c
DefaultOf(c) ==
    CASE c = "guild" -> DefaultGuild
      [] c = "fortress" -> DefaultFortress
      [] c = "underworld" -> DefaultUnderworld
      [] c = "pets" -> DefaultPets
      [] c = "portal" -> DefaultPortal
\* the names of the fields of a response that write the field f of c
Supplies(c, f) ==
    CASE c = "pets" /\ f = "rank" -> {"petsrank"}
      [] c = "pets" /\ f = "max_pet_level" -> {"maxpetlevel"}
      [] c = "pets" /\ f = "next_free_exploration" -> {"ownplayersave"}
      [] c = "guild" /\ f = "name" -> {"owngroupname"}
      [] c = "guild" /\ f = "rank" -> {"owngrouprank"}
      [] c = "underworld" /\ f = "souls_current" -> {"resources"}
      [] c = "fortress" /\ f = "upgrades" -> {"ownplayersave"}
      [] c = "portal" /\ f = "player_hp_bonus" -> {"ownplayersave"}
      [] OTHER -> {}

\* C27: a sub-state at its sentinel at the end of an update is gone when
\* the next update begins, and when an update materializes a sub-state that
\* was absent, every field that the update's response does not supply has
\* its default value, whatever it held before the pruning
C27_PrunedIsDiscarded ==
    (pc \in {"loop", "done"}) =>
        /\ NoneAtSentinel(entry)
        /\ \A c \in Prunable :
              (entry[c] = None /\ IsSome(gs[c])) =>
                  \A f \in DOMAIN DefaultOf(c) :
                      (\A k \in Supplies(c, f) : ~HasKey(resp, k)) =>
                          Unwrap(gs[c])[f] = DefaultOf(c)[f]

\* the account save of the first call gave pets a time of the next
\* exploration, the pets were pruned, and the petsrank of the second call
\* has made pets that have the rank and no such time
C27_Witness ==
    /\ calls = 2 /\ pc = "done" /\ result = "Ok"
    /\ Len(resp) = 1 /\ resp[1].key = "petsrank"
    /\ entry.level = 30 /\ entry.pets = None
    /\ gs.pets = Some([DefaultPets EXCEPT !.rank = 7])

----------------------------------------------------------------------------
(* The fight of an earlier response *)

SurviveFields ==
    { Field("timestamp", StrV("x")),
      Field("fightversion", IntV(2)),
      Field("fightgroups", StrV("a/b")),
      Field("fightresult", ListV(Dense(<<1, 2>>))),
      Field("fightresult", StrV("")),
      Field("winnerid1", IntV(7)),
      Field("fightheader1", StrV("h")),
      Field("fight1", StrV("r")),
      Field("fightadditionalplayers", StrV("p")),
      Field("ownplayername", StrV("Foo")) }

UpdateSurvive ==
    \E r \in ResponsesOver(SurviveFields, MaxFields) : Begin(r, Rel(1700000000) + 30)

NextSurvive ==
    \/ UpdateSurvive
    \/ H_fightversion
    \/ H_fightgroups
    \/ H_fightresult
    \/ H_winnerid
    \/ H_fightheader
    \/ H_fight
    \/ H_skipped
    \/ H_ownplayername
    \/ Reconcile
    \/ Finish

SpecSurvive == InitIn({UTC}) /\ [][NextSurvive]_vars

\* the call has passed the timestamp step
PastStamp == pc = "loop" \/ (pc = "done" /\ pos > 0)
\* the names of the fields that decode a fight
IsFightField(k) ==
    \/ k \in {"fightresult", "fightgroups", "fightversion"}
    \/ StartsWith(k, "winnerid")
    \/ StartsWith(k, "fightheader")
    \/ (StartsWith(k, "fight") /\ Len(k) <= 7)

\* C28: last_fight is cleared before any field is processed: once an update
\* has passed the timestamp step, last_fight is present only if a fight
\* field of that same response has been processed, so the fight of an
\* earlier response does not survive
C28_FightOfThisResponseOnly ==
    (PastStamp /\ IsSome(gs.last_fight)) =>
        \E i \in 1..Len(resp) : i <= pos /\ IsFightField(resp[i].key)

\* a call without any fight field has ended, and the fight the call found
\* is gone
C28_Witness ==
    /\ pc = "done" /\ result = "Ok" /\ IsSome(entry.last_fight)
    /\ Len(resp) = 1 /\ resp[1].key = "ownplayername"
    /\ gs.last_fight = None

----------------------------------------------------------------------------
(* GameState::new *)

\* a constructor that returns whatever update has made
GameState_new_unchecked(r, g) == IF r # "Ok" THEN Err(r) ELSE Ok(g)
\* GameState::new (mod.rs:142-152), from how update ended (r) on the default
\* snapshot and what it has made of it (g)
GameState_new(r, g) ==
    IF r # "Ok" THEN Err(r)
    ELSE IF g.level = 0 \/ g.name = "" THEN Err("ParsingError")
    ELSE Ok(g)

NewFields ==
    { Field("ownplayername", StrV("Foo")),
      Field("ownplayername", StrV("")),
      Field("ownplayersave", ListV(Save(702, 30, 3, 1700000600))),
      Field("ownplayersave", ListV(Save(702, 0, 3, 1700000600))),
      Field("ownplayersave", ListV(Save(SaveMinLen - 1, 30, 3, 1700000600))),
      Field("petsrank", StrV("x")),
      Field("cryptoid not found", StrV("")) }

\* mod.rs:142-143: update is called once, on the default snapshot
UpdateNew ==
    /\ calls = 0
    /\ \E r \in ResponsesOver(NewFields, MaxFields) : Begin(r, Rel(1700000000) + 30)

\* mod.rs:144-151: update has returned and new returns
NewReturns ==
    /\ pc = "done"
    /\ result # "panic"
    /\ Decoded("new", resp, FALSE, GameState_new(result, gs))
    /\ UNCHANGED <<gs, zone, pc, resp, received, pos, server_time, other_player,
                   other_guild, result, entry, reconciled, calls>>

NextNew ==
    \/ UpdateNew
    \/ H_ownplayername
    \/ H_ownplayersave
    \/ H_petsrank
    \/ H_cryptoid_not_found
    \/ Reconcile
    \/ NewReturns

SpecNew == InitIn({UTC}) /\ [][NextNew]_vars

NewReturned == conv.called /\ conv.fn = "new"
\* the response carries an account save long enough to be decoded, with a
\* level that is not 0, and a name that is not empty
FullPlayerState(r) ==
    /\ HasKey(r, "ownplayersave")
    /\ ValueOf(r, "ownplayersave").d.len >= SaveMinLen
    /\ At(ValueOf(r, "ownplayersave").d, 7) % 65536 # 0
    /\ HasKey(r, "ownplayername") /\ ValueOf(r, "ownplayername").s # ""

\* C30: GameState::new returns Ok only if the response, applied to a default
\* snapshot, has left a level that is not 0 and a name that is not empty;
\* when update succeeds and one of them is missing it returns a
\* ParsingError, and when update fails it returns the error of update
C30_NewNeedsLevelAndName ==
    NewReturned =>
        /\ entry = DefaultGameState
        /\ conv.res.ok =>
              /\ result = "Ok" /\ FullPlayerState(resp)
              /\ Unwrap(conv.res.v) = gs /\ gs.level # 0 /\ gs.name # ""
        /\ (result = "Ok" /\ ~FullPlayerState(resp)) => conv.res = Err("ParsingError")
        /\ result # "Ok" => conv.res = Err(result)

\* update has skipped an account save of 699 integers and returned Ok, and
\* new has returned a ParsingError
C30_Witness ==
    /\ NewReturned /\ result = "Ok"
    /\ HasKey(resp, "ownplayername") /\ ValueOf(resp, "ownplayername").s = "Foo"
    /\ HasKey(resp, "ownplayersave")
    /\ ValueOf(resp, "ownplayersave").d.len = SaveMinLen - 1
    /\ gs.level = 0 /\ gs.name = "Foo"
    /\ conv.res = Err("ParsingError")

====
